---- MODULE Spec2Model ----
(***************************************************************************)
(* Model of the RS ranking engine (rs_system): the market-wide ranking run *)
(* calculate_market_wide_rs_ranking with its worker pools and its score    *)
(* cache, the percentile scoring, the ranked table, and Ranker.            *)
(*                                                                         *)
(* Abstractions:                                                           *)
(*  - a ticker's price data is the provider's answer for it together with  *)
(*    the weighted RS that RSCalculator derives from it (an integer stands *)
(*    for the float; only order and equality of RS values are used here);  *)
(*  - time is counted in hours and kept as the age of the cache timestamp  *)
(*    (datetime.now() - timestamp); the clock advances between runs;       *)
(*  - pickle.dump / pickle.load of the score mapping are modelled as the   *)
(*    item list written and the dict rebuilt from it.                      *)
(***************************************************************************)
EXTENDS Integers, Sequences, FiniteSets, TLC

(***************************** bounds **************************************)
MaxAge == 36
MaxRS == 2
MaxDist == 3
MaxSeriesLen == 3
MantBits == 5

(************************ program constants ********************************)
CACHE_TTL_HOURS == 24
LOOKBACK == 252
MIN_SCORE == 1
MAX_SCORE == 99

(***************************** universes ***********************************)
Tickers == {"A", "B"}
RSValues == 1..MaxRS
MarketLists == {<<"A">>, <<"A", "B">>, <<"B", "A">>}
UserLists == {<<"A", "B">>, <<"B", "B">>}
WorkerWidths == {1, 2}
ClockSteps == {CACHE_TTL_HOURS \div 2}

Range(s) == {s[i] : i \in DOMAIN s}
Max2(a, b) == IF a >= b THEN a ELSE b
Min2(a, b) == IF a <= b THEN a ELSE b

(********************** the price provider's answers ***********************)
\* What one fetch-and-compute unit meets for a ticker: the frame returned by
\* fetch_single_ticker ("None", "empty" or "ok"), its number of rows, whether
\* calculate_rs_raw returns a result and which weighted_rs, and whether
\* something inside the unit raises.
Answer(df, n, raw, rs, exc) ==
    [df |-> df, len |-> n, raw_ok |-> raw, rs |-> rs, raises |-> exc]
FailAnswers ==
    { Answer("None", 0, FALSE, 0, FALSE),
      Answer("ok", LOOKBACK - 1, FALSE, 0, FALSE),
      Answer("ok", LOOKBACK, FALSE, 0, FALSE),
      Answer("ok", LOOKBACK, TRUE, 0, TRUE) }
OkAnswers == { Answer("ok", LOOKBACK, TRUE, v, FALSE) : v \in RSValues }
Answers == FailAnswers \cup OkAnswers

\* The price data of a ticker, as far as the ranking run sees it: data from
\* which an RS value rs is computed, or data with which the unit fails in
\* one of the ways of FailAnswers.
NoData == [ok |-> FALSE, rs |-> 0]
PriceData == {NoData} \cup {[ok |-> TRUE, rs |-> v] : v \in RSValues}
AnswersOf(p) ==
    IF p.ok THEN {Answer("ok", LOOKBACK, TRUE, p.rs, FALSE)} ELSE FailAnswers

NoneResult == [ok |-> FALSE, exc |-> FALSE, ticker |-> "", weighted_rs |-> 0]
RaisedResult == [ok |-> FALSE, exc |-> TRUE, ticker |-> "", weighted_rs |-> 0]
OkResult(t, v) == [ok |-> TRUE, exc |-> FALSE, ticker |-> t, weighted_rs |-> v]

\* _calculate_single_ticker_rs: None on every failure, the exception included
\* (a result with exc set stands for an exception leaving the unit).
\* Whether a failure is logged at warning level or above.  The fetcher logs
\* a warning or an error before every "return None"; calculate_rs_raw logs
\* one for too few common dates, an empty RS line or an exception, and
\* nothing for a weighted RS of None; the unit itself logs at debug level
\* only; the loop after the target pool logs nothing and swallows what is
\* raised.
LoggedWarning(a, in_loop) ==
    IF a.raises THEN {FALSE}
    ELSE IF a.df \in {"None", "empty"} THEN {TRUE}
    ELSE IF a.len < LOOKBACK THEN {in_loop}
    ELSE IF a.raw_ok THEN {FALSE}
    ELSE {TRUE, FALSE}

CalculateSingleTickerRsRaising(ticker, a) ==
    IF a.raises THEN RaisedResult
    ELSE IF a.df \in {"None", "empty"} THEN NoneResult
    ELSE IF a.len < LOOKBACK THEN NoneResult
    ELSE IF a.raw_ok THEN OkResult(ticker, a.rs)
    ELSE NoneResult

CalculateSingleTickerRs(ticker, a) ==
    IF a.raises THEN NoneResult
    ELSE IF a.df \in {"None", "empty"} THEN NoneResult
    ELSE IF a.len < LOOKBACK THEN NoneResult
    ELSE IF a.raw_ok THEN OkResult(ticker, a.rs)
    ELSE NoneResult

(************************ percentile scoring *******************************)
\* scipy.stats.percentileofscore(D, x, kind='rank') as called by the ranker:
\* left = #(D < x), right = #(D <= x), percentile =
\* (left + right + (1 if left < right else 0)) * 50 / n.  The value is the
\* rational PercentileNum / Len(D).
CountLess(D, x) == Cardinality({i \in DOMAIN D : D[i] < x})
CountLeq(D, x) == Cardinality({i \in DOMAIN D : D[i] <= x})
PercentileNum(D, x) ==
    LET left == CountLess(D, x)
        right == CountLeq(D, x)
    IN (left + right + (IF left < right THEN 1 ELSE 0)) * 50

\* rs_score = max(1, min(99, int(percentile)))
RsScoreDescending(D, x) ==
    Max2(MIN_SCORE, Min2(MAX_SCORE, (100 * Len(D) - PercentileNum(D, x)) \div Len(D)))
RsScoreUnclamped(D, x) == PercentileNum(D, x) \div Len(D)
RsScoreWeak(D, x) ==
    Max2(MIN_SCORE, Min2(MAX_SCORE, (CountLeq(D, x) * 100) \div Len(D)))

RsScore(D, x) ==
    Max2(MIN_SCORE, Min2(MAX_SCORE, PercentileNum(D, x) \div Len(D)))

(*************************** the ranked table ******************************)
\* df['rs_score'].rank(ascending=False, method='min'): one more than the
\* number of rows with a strictly higher score.
RankDense(scores, t) ==
    1 + Cardinality({scores[u] : u \in {w \in DOMAIN scores : scores[w] > scores[t]}})
RankMax(scores, t) ==
    Cardinality({u \in DOMAIN scores : scores[u] >= scores[t]})

RankMinDescending(scores, t) ==
    1 + Cardinality({u \in DOMAIN scores : scores[u] > scores[t]})

Row(t, raw, score, rank) ==
    [ticker |-> t, rs_raw |-> raw, rs_score |-> score, rank |-> rank]

\* The rows of the frame: one per key of the raw-RS dict.
Rows(raw, scores) ==
    { Row(t, raw[t], scores[t], RankMinDescending(scores, t)) : t \in DOMAIN raw }

Orderings(rows) ==
    { s \in [1..Cardinality(rows) -> rows] : \A i, j \in DOMAIN s : i # j => s[i] # s[j] }

\* df.sort_values('rs_score', ascending=False).reset_index(drop=True): the
\* default sort is not stable, so rows of equal score come in any order.
SortValuesDescending(rows) ==
    { s \in Orderings(rows) :
        \A i, j \in DOMAIN s : i < j => s[i].rs_score >= s[j].rs_score }

\* market_ranking.py steps 4: score every target against the distribution,
\* rank, sort.  raw: ticker -> rs_raw (user_rs_data); D: market_rs_values.
MarketScores(raw, D) == [t \in DOMAIN raw |-> RsScore(D, raw[t])]
BuildTable(raw, D) == SortValuesDescending(Rows(raw, MarketScores(raw, D)))

(******************************* Ranker ************************************)
\* numpy's round: half to even.  num / den with den > 0, num >= 0.
RoundHalfEven(num, den) ==
    LET q == num \div den
        r == num % den
    IN IF 2 * r < den THEN q
       ELSE IF 2 * r > den THEN q + 1
       ELSE IF q % 2 = 0 THEN q ELSE q + 1

\* Ranker.rank_rs_scores: percentile = rank(pct=True, method='min') =
\* (1 + #(values < x)) / n; rs_score = round(min + percentile * (max - min)),
\* then clipped to [min_score, max_score].
RankerScore(vals, x) ==
    LET n == Cardinality(DOMAIN vals)
        k == 1 + Cardinality({u \in DOMAIN vals : vals[u] < x})
        s == RoundHalfEven(MIN_SCORE * n + k * (MAX_SCORE - MIN_SCORE), n)
    IN Max2(MIN_SCORE, Min2(MAX_SCORE, s))

RankerScores(raw) == [t \in DOMAIN raw |-> RankerScore(raw, raw[t])]
RankRsScores(raw) ==
    IF DOMAIN raw = {} THEN {<<>>}
    ELSE SortValuesDescending(Rows(raw, RankerScores(raw)))

(************************* the lagged rescorer *****************************)
DAYS_BACK == 5
NoScore == [ok |-> FALSE, score |-> 0]

\* calculate_rs_1w_ago, by lengths: n rows of price data, m dates shared by
\* the truncated stock series and the benchmark, a the outcome of
\* calculate_rs_raw on the series handed to it, D the market distribution.
\* An empty D makes percentileofscore divide by zero; the exception is
\* caught and None returned.
CalculateRs1wAgo(n, m, a, D) ==
    IF n < 10 \/ n < DAYS_BACK + 1 \/ n - DAYS_BACK < LOOKBACK \/ m < LOOKBACK
    THEN NoScore
    ELSE IF a.raises \/ ~a.raw_ok \/ m - DAYS_BACK < LOOKBACK + 1 THEN NoScore
    ELSE IF Len(D) = 0 THEN NoScore
    ELSE [ok |-> TRUE, score |-> RsScore(D, a.rs)]

(****************************** the state **********************************)
VARIABLES
    prices,            \* the price data of every ticker
    cache_file,        \* market_rs_cache.pkl
    cache_meta,        \* market_rs_cache_meta.pkl
    torn,              \* cache_file was written by a save whose meta write did not follow
    pc,                \* position of the ranking run
    ret,               \* which return statement the run took
    market_tickers, user_tickers, use_cache, max_workers,
    market_benchmark,  \* the benchmark frame fetched by the run
    market_rs_scores,  \* dict ticker -> weighted_rs
    cache_hit,         \* market_rs_scores was taken from the cache
    futures,           \* the units submitted to the current pool
    success_count, fail_count,
    user_rs_data,      \* dict ticker -> rs_raw
    user_success_count, user_fail_count,
    table,             \* the returned frame
    market_rs_values,  \* the returned distribution
    reads, saves, save_ok, dispatched, \* cache reads, saves, market units of this run
    refetched,         \* the tickers fetched again by the loop after the target pool
    warned,            \* the target tickers whose failure was logged as a warning or error
    prev_run,          \* the previous run, when it rebuilt the distribution
    rk_pc, dist_in, raw_in, rk_table, rk_score, \* the ranking functions on their own
    fn_pc, fn_in, fn_out   \* the functions of the RS calculator on their own

cacheVars == <<cache_file, cache_meta, torn>>
inputVars == <<market_tickers, user_tickers, use_cache, max_workers>>
marketVars == <<market_rs_scores, cache_hit, success_count, fail_count>>
userVars == <<user_rs_data, user_success_count, user_fail_count>>
outVars == <<ret, table, market_rs_values>>
ghostVars == <<reads, saves, save_ok, dispatched, refetched, warned>>
rankVars == <<rk_pc, dist_in, raw_in, rk_table, rk_score>>
calcVars == <<fn_pc, fn_in, fn_out>>
runVars == <<pc, inputVars, market_benchmark, marketVars, futures, userVars, outVars,
             ghostVars, prev_run>>
vars == <<prices, cacheVars, runVars, rankVars, calcVars>>

(**************************** dicts and files ******************************)
EmptyDict == [t \in {} |-> 0]
DictReplace(d, k, v) == [t \in {k} |-> v]
DictPut(d, k, v) == [t \in DOMAIN d \cup {k} |-> IF t = k THEN v ELSE d[t]]
\* list(d.values())
DictValues(d) ==
    LET n == Cardinality(DOMAIN d)
        order == CHOOSE s \in [1..n -> DOMAIN d] : \A i, j \in 1..n : i # j => s[i] # s[j]
    IN [i \in 1..n |-> d[order[i]]]

\* pickle.dump of the score dict writes its items; pickle.load rebuilds it.
PickleDump(d) == {<<t, d[t]>> : t \in DOMAIN d}
PickleLoad(items) ==
    [t \in {p[1] : p \in items} |-> CHOOSE v \in {p[2] : p \in items} : <<t, v>> \in items]

MissingFile == [st |-> "missing", items |-> {}]
CorruptFile == [st |-> "corrupt", items |-> {}]
DataFile(d) == [st |-> "ok", items |-> PickleDump(d)]
\* The meta file holds the timestamp and the ticker list; age is the time
\* since that timestamp (datetime.now() - cache_time).
MissingMeta == [st |-> "missing", age |-> 0, tickers |-> <<>>]
CorruptMeta == [st |-> "corrupt", age |-> 0, tickers |-> <<>>]
MetaFile(l) == [st |-> "ok", age |-> 0, tickers |-> l]

NoCached == [ok |-> FALSE, scores |-> EmptyDict]

\* _load_market_rs_cache(market_tickers)
LoadMarketRsCacheListKey(file, meta, tickers) ==
    IF file.st = "missing" \/ meta.st = "missing" THEN NoCached
    ELSE IF meta.st = "corrupt" THEN NoCached
    ELSE IF meta.age > CACHE_TTL_HOURS THEN NoCached
    ELSE IF meta.tickers # tickers THEN NoCached
    ELSE IF file.st = "corrupt" THEN NoCached
    ELSE [ok |-> TRUE, scores |-> PickleLoad(file.items)]
LoadMarketRsCacheNoTTL(file, meta, tickers) ==
    IF file.st = "missing" \/ meta.st = "missing" THEN NoCached
    ELSE IF meta.st = "corrupt" THEN NoCached
    ELSE IF Range(meta.tickers) # Range(tickers) THEN NoCached
    ELSE IF file.st = "corrupt" THEN NoCached
    ELSE [ok |-> TRUE, scores |-> PickleLoad(file.items)]

LoadMarketRsCache(file, meta, tickers) ==
    IF file.st = "missing" \/ meta.st = "missing" THEN NoCached
    ELSE IF meta.st = "corrupt" THEN NoCached
    ELSE IF meta.age > CACHE_TTL_HOURS THEN NoCached
    ELSE IF Range(meta.tickers) # Range(tickers) THEN NoCached
    ELSE IF file.st = "corrupt" THEN NoCached
    ELSE [ok |-> TRUE, scores |-> PickleLoad(file.items)]

(****************************** the pools **********************************)
Future(t) == [ticker |-> t, st |-> "queued", res |-> NoneResult]
Submit(list) == [i \in 1..Len(list) |-> Future(list[i])]
AllCollected == \A i \in DOMAIN futures : futures[i].st = "collected"
Running == {i \in DOMAIN futures : futures[i].st = "running"}
\* [t for t in user_tickers if t not in market_rs_scores]
NotIn(list, S) == SelectSeq(list, LAMBDA t : t \notin S)

NoPrev == [valid |-> FALSE, tickers |-> <<>>, scores |-> EmptyDict, saved |-> FALSE]

RunReset ==
    /\ market_tickers' = <<>> /\ user_tickers' = <<>>
    /\ use_cache' = FALSE /\ max_workers' = 1
    /\ market_benchmark' = "None"
    /\ market_rs_scores' = EmptyDict /\ cache_hit' = FALSE
    /\ success_count' = 0 /\ fail_count' = 0
    /\ futures' = <<>>
    /\ user_rs_data' = EmptyDict /\ user_success_count' = 0 /\ user_fail_count' = 0
    /\ ret' = "" /\ table' = <<>> /\ market_rs_values' = <<>>
    /\ reads' = 0 /\ saves' = 0 /\ save_ok' = FALSE /\ dispatched' = 0
    /\ refetched' = {} /\ warned' = {}

RunIdle ==
    /\ pc = "idle"
    /\ market_tickers = <<>> /\ user_tickers = <<>>
    /\ use_cache = FALSE /\ max_workers = 1
    /\ market_benchmark = "None"
    /\ market_rs_scores = EmptyDict /\ cache_hit = FALSE
    /\ success_count = 0 /\ fail_count = 0
    /\ futures = <<>>
    /\ user_rs_data = EmptyDict /\ user_success_count = 0 /\ user_fail_count = 0
    /\ ret = "" /\ table = <<>> /\ market_rs_values = <<>>
    /\ reads = 0 /\ saves = 0 /\ save_ok = FALSE /\ dispatched = 0
    /\ refetched = {} /\ warned = {}
    /\ prev_run = NoPrev

RankIdle ==
    /\ rk_pc = "off" /\ dist_in = <<>> /\ raw_in = EmptyDict
    /\ rk_table = <<>> /\ rk_score = NoScore

NoCall == [f |-> "none"]
CalcIdle == fn_pc = "off" /\ fn_in = NoCall /\ fn_out = NoCall

Init ==
    /\ prices \in [Tickers -> PriceData]
    /\ cache_file = MissingFile /\ cache_meta = MissingMeta /\ torn = FALSE
    /\ RunIdle
    /\ RankIdle
    /\ CalcIdle

(*************************** the environment *******************************)
\* Time passes between runs: the cache timestamp gets older.
Tick ==
    /\ pc = "idle"
    /\ cache_meta.st = "ok"
    /\ \E d \in ClockSteps :
         /\ cache_meta.age + d <= MaxAge
         /\ cache_meta' = [cache_meta EXCEPT !.age = cache_meta.age + d]
    /\ prev_run' = IF prev_run.saved THEN prev_run ELSE NoPrev
    /\ UNCHANGED <<prices, cache_file, torn, pc, inputVars, market_benchmark, marketVars,
                   futures, userVars, outVars, ghostVars, rankVars, calcVars>>

\* The provider's data for a ticker changes between runs.
ChangePrices ==
    /\ pc = "idle"
    /\ \E t \in Tickers, a \in PriceData :
         /\ a # prices[t]
         /\ prices' = [prices EXCEPT ![t] = a]
    /\ prev_run' = NoPrev
    /\ UNCHANGED <<cacheVars, pc, inputVars, market_benchmark, marketVars, futures,
                   userVars, outVars, ghostVars, rankVars, calcVars>>

(**************************** the ranking run ******************************)
\* calculate_market_wide_rs_ranking(user_tickers, market_tickers, use_cache,
\* max_workers) is called.
Call ==
    /\ pc = "idle"
    /\ \E m \in MarketLists, u \in UserLists, c \in BOOLEAN, w \in WorkerWidths :
         /\ market_tickers' = m /\ user_tickers' = u
         /\ use_cache' = c /\ max_workers' = w
    /\ pc' = "bench"
    /\ UNCHANGED <<prices, cacheVars, market_benchmark, marketVars, futures, userVars,
                   outVars, ghostVars, prev_run, rankVars, calcVars>>

\* step 1: the benchmark fetch (it fails or returns a frame); return
\* (DataFrame(), []) when it fails
FetchBenchmark ==
    /\ pc = "bench"
    /\ \E df \in {"None", "ok"} :
         /\ market_benchmark' = df
         /\ IF df = "None"
            THEN pc' = "done" /\ ret' = "no_benchmark"
            ELSE pc' = "load" /\ ret' = ret
    /\ UNCHANGED <<prices, cacheVars, inputVars, marketVars, futures, userVars,
                   table, market_rs_values, ghostVars, prev_run, rankVars, calcVars>>

\* step 2, first half: try the cache; on a miss submit one unit per market
\* ticker to the pool
LoadAndSubmit ==
    /\ pc = "load"
    /\ LET cached == IF use_cache
                     THEN LoadMarketRsCache(cache_file, cache_meta, market_tickers)
                     ELSE NoCached
           hit == cached.ok /\ DOMAIN cached.scores # {}
       IN /\ reads' = IF use_cache THEN reads + 1 ELSE reads
          /\ cache_hit' = hit
          /\ IF hit
             THEN /\ market_rs_scores' = cached.scores
                  /\ pc' = "check"
                  /\ UNCHANGED <<futures, dispatched>>
             ELSE /\ market_rs_scores' = EmptyDict
                  /\ futures' = Submit(market_tickers)
                  /\ dispatched' = Len(market_tickers)
                  /\ pc' = "market"
    /\ UNCHANGED <<prices, cacheVars, inputVars, market_benchmark, success_count,
                   fail_count, userVars, outVars, saves, save_ok, refetched, warned,
                   prev_run,
                   rankVars, calcVars>>

\* a pool worker takes the oldest queued unit when fewer than max_workers run
StartUnitUnbounded ==
    /\ pc \in {"market", "user"}
    /\ \E i \in DOMAIN futures :
         /\ futures[i].st = "queued"
         /\ futures' = [futures EXCEPT ![i].st = "running"]
    /\ UNCHANGED <<prices, cacheVars, pc, inputVars, market_benchmark, marketVars,
                   userVars, outVars, ghostVars, prev_run, rankVars, calcVars>>

StartUnit ==
    /\ pc \in {"market", "user"}
    /\ \E i \in DOMAIN futures :
         /\ futures[i].st = "queued"
         /\ \A j \in DOMAIN futures : j < i => futures[j].st # "queued"
         /\ Cardinality(Running) < max_workers
         /\ futures' = [futures EXCEPT ![i].st = "running"]
    /\ UNCHANGED <<prices, cacheVars, pc, inputVars, market_benchmark, marketVars,
                   userVars, outVars, ghostVars, prev_run, rankVars, calcVars>>

\* the unit runs _calculate_single_ticker_rs to its end
FinishUnit ==
    /\ pc \in {"market", "user"}
    /\ \E i \in DOMAIN futures :
         /\ futures[i].st = "running"
         /\ \E a \in AnswersOf(prices[futures[i].ticker]) :
              /\ futures' = [futures EXCEPT
                     ![i].st = "done",
                     ![i].res = CalculateSingleTickerRs(futures[i].ticker, a)]
              /\ \E w \in LoggedWarning(a, FALSE) :
                   warned' = IF pc = "user" /\ w
                             THEN warned \cup {futures[i].ticker} ELSE warned
    /\ UNCHANGED <<prices, cacheVars, pc, inputVars, market_benchmark, marketVars,
                   userVars, outVars, reads, saves, save_ok, dispatched, refetched,
                   prev_run, rankVars, calcVars>>

\* the body of "for future in as_completed(futures)" of the market batch;
\* future.result() re-raises what the unit raised
CollectMarket ==
    /\ pc = "market"
    /\ \E i \in DOMAIN futures :
         /\ futures[i].st = "done"
         /\ futures' = [futures EXCEPT ![i].st = "collected"]
         /\ LET result == futures[i].res
            IN IF result.exc
               THEN pc' = "raised" /\ UNCHANGED marketVars
               ELSE IF result.ok
               THEN /\ market_rs_scores' =
                         DictPut(market_rs_scores, result.ticker, result.weighted_rs)
                    /\ success_count' = success_count + 1
                    /\ UNCHANGED <<pc, cache_hit, fail_count>>
               ELSE /\ fail_count' = fail_count + 1
                    /\ UNCHANGED <<pc, market_rs_scores, cache_hit, success_count>>
    /\ UNCHANGED <<prices, cacheVars, inputVars, market_benchmark, userVars, outVars,
                   ghostVars, prev_run, rankVars, calcVars>>

\* the batch is left as soon as one unit has been collected
FinishBatchEarly ==
    /\ pc = "market"
    /\ Cardinality({i \in DOMAIN futures : futures[i].st = "collected"}) >= 1
    /\ IF use_cache /\ DOMAIN market_rs_scores # {}
       THEN pc' = "save_data" /\ saves' = saves + 1
       ELSE pc' = "check" /\ saves' = saves
    /\ UNCHANGED <<prices, cacheVars, inputVars, market_benchmark, marketVars, futures,
                   userVars, outVars, reads, save_ok, dispatched, refetched, warned,
                   prev_run,
                   rankVars, calcVars>>

\* the cache is saved whatever use_cache says
FinishBatchSaving ==
    /\ pc = "market"
    /\ AllCollected
    /\ IF DOMAIN market_rs_scores # {}
       THEN pc' = "save_data" /\ saves' = saves + 1
       ELSE pc' = "check" /\ saves' = saves
    /\ UNCHANGED <<prices, cacheVars, inputVars, market_benchmark, marketVars, futures,
                   userVars, outVars, reads, save_ok, dispatched, refetched, warned,
                   prev_run,
                   rankVars, calcVars>>

\* the pool is left, the success rate logged, and the cache saved when
\* use_cache and the distribution is not empty
FinishBatch ==
    /\ pc = "market"
    /\ AllCollected
    /\ IF use_cache /\ DOMAIN market_rs_scores # {}
       THEN pc' = "save_data" /\ saves' = saves + 1
       ELSE pc' = "check" /\ saves' = saves
    /\ UNCHANGED <<prices, cacheVars, inputVars, market_benchmark, marketVars, futures,
                   userVars, outVars, reads, save_ok, dispatched, refetched, warned,
                   prev_run,
                   rankVars, calcVars>>

\* _save_market_rs_cache, first write: the scores
SaveData ==
    /\ pc = "save_data"
    /\ cache_file' = DataFile(market_rs_scores)
    /\ torn' = TRUE
    /\ pc' = "save_meta"
    /\ UNCHANGED <<prices, cache_meta, inputVars, market_benchmark, marketVars, futures,
                   userVars, outVars, ghostVars, prev_run, rankVars, calcVars>>

\* the first write raises (the file is untouched, or left truncated); the
\* exception is logged and the meta write skipped
SaveDataFails ==
    /\ pc = "save_data"
    /\ cache_file' \in {cache_file, CorruptFile}
    /\ pc' = "check"
    /\ UNCHANGED <<prices, cache_meta, torn, inputVars, market_benchmark, marketVars,
                   futures, userVars, outVars, ghostVars, prev_run, rankVars, calcVars>>

\* second write: the timestamp and the ticker list
SaveMeta ==
    /\ pc = "save_meta"
    /\ cache_meta' = MetaFile(market_tickers)
    /\ torn' = FALSE
    /\ save_ok' = TRUE
    /\ pc' = "check"
    /\ UNCHANGED <<prices, cache_file, inputVars, market_benchmark, marketVars, futures,
                   userVars, outVars, reads, saves, dispatched, refetched, warned,
                   prev_run,
                   rankVars, calcVars>>

SaveMetaFails ==
    /\ pc = "save_meta"
    /\ cache_meta' \in {cache_meta, CorruptMeta}
    /\ pc' = "check"
    /\ UNCHANGED <<prices, cache_file, torn, inputVars, market_benchmark, marketVars,
                   futures, userVars, outVars, ghostVars, prev_run, rankVars, calcVars>>

\* "if not market_rs_scores: return"; else step 3: submit the target tickers
\* that are not keys of the distribution
CheckAndSubmitUsers ==
    /\ pc = "check"
    /\ IF DOMAIN market_rs_scores = {}
       THEN /\ pc' = "done" /\ ret' = "no_market"
            /\ UNCHANGED futures
       ELSE /\ futures' = Submit(NotIn(user_tickers, DOMAIN market_rs_scores))
            /\ pc' = "user" /\ ret' = ret
    /\ UNCHANGED <<prices, cacheVars, inputVars, market_benchmark, marketVars, userVars,
                   table, market_rs_values, ghostVars, prev_run, rankVars, calcVars>>

CollectUser ==
    /\ pc = "user"
    /\ \E i \in DOMAIN futures :
         /\ futures[i].st = "done"
         /\ futures' = [futures EXCEPT ![i].st = "collected"]
         /\ LET result == futures[i].res
            IN IF result.exc
               THEN pc' = "raised" /\ UNCHANGED userVars
               ELSE IF result.ok
               THEN /\ user_rs_data' =
                         DictPut(user_rs_data, result.ticker, result.weighted_rs)
                    /\ user_success_count' = user_success_count + 1
                    /\ UNCHANGED <<pc, user_fail_count>>
               ELSE /\ user_fail_count' = user_fail_count + 1
                    /\ UNCHANGED <<pc, user_rs_data, user_success_count>>
    /\ UNCHANGED <<prices, cacheVars, inputVars, market_benchmark, marketVars, outVars,
                   ghostVars, prev_run, rankVars, calcVars>>

\* the loop over the target tickers that are keys of the distribution and
\* have no entry yet: fetch again and recompute; any exception is swallowed
RefetchNone(t, a) == NoneResult

Refetch(t, a) ==
    IF a.raises THEN NoneResult
    ELSE IF a.df \in {"None", "empty"} THEN NoneResult
    ELSE IF a.raw_ok THEN OkResult(t, a.rs)
    ELSE NoneResult

RECURSIVE RefetchLoop(_, _, _, _)
RefetchLoop(list, i, data, ans) ==
    IF i > Len(list) THEN data
    ELSE LET t == list[i]
             r == Refetch(t, ans[t])
         IN IF t \in DOMAIN market_rs_scores /\ t \notin DOMAIN data /\ r.ok
            THEN RefetchLoop(list, i + 1, DictPut(data, t, r.weighted_rs), ans)
            ELSE RefetchLoop(list, i + 1, data, ans)

\* the tickers for which the loop calls fetcher.fetch_single_ticker
FetchedAgain(list, data) ==
    {t \in Range(list) : t \in DOMAIN market_rs_scores /\ t \notin DOMAIN data}

\* the pool is left; refetch loop; "if not user_rs_data: return"; step 4
RefetchAndRank ==
    /\ pc = "user"
    /\ AllCollected
    /\ \E ans \in [Tickers -> Answers], w \in [Tickers -> BOOLEAN] :
         /\ \A t \in Tickers : ans[t] \in AnswersOf(prices[t])
         /\ \A t \in Tickers : w[t] \in LoggedWarning(ans[t], TRUE)
         /\ LET data == RefetchLoop(user_tickers, 1, user_rs_data, ans)
            IN /\ user_rs_data' = data
               /\ refetched' = FetchedAgain(user_tickers, user_rs_data)
               /\ warned' = warned \cup
                     {t \in FetchedAgain(user_tickers, user_rs_data) : w[t]}
               /\ IF DOMAIN data = {}
                  THEN /\ ret' = "no_user"
                       /\ UNCHANGED <<table, market_rs_values>>
                  ELSE /\ ret' = "ranked"
                       /\ market_rs_values' = DictValues(market_rs_scores)
                       /\ table' \in BuildTable(data, DictValues(market_rs_scores))
    /\ pc' = "done"
    /\ UNCHANGED <<prices, cacheVars, inputVars, market_benchmark, marketVars, futures,
                   user_success_count, user_fail_count, reads, saves, save_ok,
                   dispatched, prev_run, rankVars, calcVars>>

\* the call returns (or the exception leaves it).  prev_run remembers a run
\* that rebuilt the distribution with use_cache and met no write failure.
Return ==
    /\ pc \in {"done", "raised"}
    /\ prev_run' = IF use_cache /\ pc = "done" /\ dispatched > 0 /\ (save_ok \/ saves = 0)
                   THEN [valid |-> TRUE, tickers |-> market_tickers,
                         scores |-> market_rs_scores, saved |-> save_ok]
                   ELSE NoPrev
    /\ pc' = "idle"
    /\ RunReset
    /\ UNCHANGED <<prices, cacheVars, rankVars, calcVars>>

\* the process is interrupted
Kill ==
    /\ pc \notin {"idle", "done", "raised"}
    /\ prev_run' = NoPrev
    /\ pc' = "idle"
    /\ RunReset
    /\ UNCHANGED <<prices, cacheVars, rankVars, calcVars>>

Next ==
    \/ Tick \/ ChangePrices
    \/ Call \/ FetchBenchmark \/ LoadAndSubmit
    \/ StartUnit \/ FinishUnit \/ CollectMarket \/ FinishBatch
    \/ SaveData \/ SaveDataFails \/ SaveMeta \/ SaveMetaFails
    \/ CheckAndSubmitUsers \/ CollectUser \/ RefetchAndRank
    \/ Return \/ Kill

Spec == Init /\ [][Next]_vars

\* One call after another of an uninterrupted process, over each provider
\* state and the cache the earlier calls left.  The pool's worker
\* threads are scheduled fairly and every fetch they make returns
\* (WorkerStep); the calling thread runs on whenever it has a step to take
\* (CallerStep): reading and writing the cache files, waiting in
\* as_completed, leaving the "with" block, the refetch loop and the ranking
\* are all finite.
WorkerStep == StartUnit \/ FinishUnit
CallerStep ==
    \/ FetchBenchmark \/ LoadAndSubmit
    \/ CollectMarket \/ FinishBatch
    \/ SaveData \/ SaveDataFails \/ SaveMeta \/ SaveMetaFails
    \/ CheckAndSubmitUsers \/ CollectUser \/ RefetchAndRank
    \/ Return

NextLive ==
    \/ Call \/ FetchBenchmark \/ LoadAndSubmit
    \/ StartUnit \/ FinishUnit \/ CollectMarket \/ FinishBatch
    \/ SaveData \/ SaveDataFails \/ SaveMeta \/ SaveMetaFails
    \/ CheckAndSubmitUsers \/ CollectUser \/ RefetchAndRank
    \/ Return

SpecLive == Init /\ [][NextLive]_vars /\ WF_vars(WorkerStep) /\ WF_vars(CallerStep)

(************** the ranking functions on bounded inputs ********************)
RankTickers == {"A", "B", "C"}
RankValues == 0..MaxRS
Dists == UNION {[1..n -> RankValues] : n \in 1..MaxDist}
RawDicts == UNION {[S -> RankValues] : S \in SUBSET RankTickers \ {{}}}
\* lengths of the price data handed to calculate_rs_1w_ago
PriceLens == {9, LOOKBACK + DAYS_BACK - 1, LOOKBACK + 2 * DAYS_BACK, LOOKBACK + 2 * DAYS_BACK + 1}

RunOff ==
    /\ prices = [t \in Tickers |-> NoData]
    /\ cache_file = MissingFile /\ cache_meta = MissingMeta /\ torn = FALSE
    /\ RunIdle

InitRank ==
    /\ RunOff
    /\ rk_pc = "in"
    /\ dist_in \in Dists
    /\ raw_in \in RawDicts
    /\ rk_table = <<>> /\ rk_score = NoScore
    /\ CalcIdle

\* step 4 of calculate_market_wide_rs_ranking on (user_rs_data, market_rs_values)
RankAgainstMarket ==
    /\ rk_pc = "in"
    /\ rk_table' \in BuildTable(raw_in, dist_in)
    /\ rk_pc' = "market"
    /\ UNCHANGED <<prices, cacheVars, runVars, dist_in, raw_in, rk_score, calcVars>>

\* Ranker().rank_rs_scores(rs_raw_dict)
RankerRank ==
    /\ rk_pc = "in"
    /\ rk_table' \in RankRsScores(raw_in)
    /\ rk_pc' = "ranker"
    /\ UNCHANGED <<prices, cacheVars, runVars, dist_in, raw_in, rk_score, calcVars>>

\* calculate_rs_1w_ago(ticker, price_data, market_rs_distribution, benchmark)
LaggedRescore ==
    /\ rk_pc = "in"
    /\ \E n \in PriceLens, a \in Answers, D \in {dist_in, <<>>} :
         rk_score' = CalculateRs1wAgo(n, n - DAYS_BACK, a, D)
    /\ rk_pc' = "lagged"
    /\ UNCHANGED <<prices, cacheVars, runVars, dist_in, raw_in, rk_table, calcVars>>

NextRank == RankAgainstMarket \/ RankerRank \/ LaggedRescore

SpecRank == InitRank /\ [][NextRank]_vars

(***************************************************************************)
(*        the RS calculator, the lagged rescorer and the indicators        *)
(*        applied to inputs of their own                                   *)
(***************************************************************************)
\* series.iloc[:-k]
DropLast(s, k) == SubSeq(s, 1, Len(s) - k)
\* a.index.intersection(b.index), in the order of a
IndexIntersection(a, b) == SelectSeq(a, LAMBDA d : d \in Range(b))

NoSeries == [ok |-> FALSE, stock |-> <<>>, market |-> <<>>]

\* calculate_rs_1w_ago up to its call of calculate_rs_raw: the dates of the
\* stock series and of the benchmark series handed to calculate_rs_raw.
LaggedSeries(stock_dates, market_dates) ==
    IF Len(stock_dates) < 10 \/ Len(stock_dates) < DAYS_BACK + 1 THEN NoSeries
    ELSE LET df_1w_ago == DropLast(stock_dates, DAYS_BACK)
         IN IF Len(df_1w_ago) < LOOKBACK THEN NoSeries
            ELSE LET common_dates == IndexIntersection(df_1w_ago, market_dates)
                 IN IF Len(common_dates) < LOOKBACK THEN NoSeries
                    ELSE [ok |-> TRUE,
                          stock |-> DropLast(common_dates, DAYS_BACK),
                          market |-> DropLast(common_dates, DAYS_BACK)]

Dates(n) == [i \in 1..n |-> i]
\* numbers of rows of the price data and of the benchmark
LagLens == {9, LOOKBACK + DAYS_BACK - 1, LOOKBACK + DAYS_BACK, LOOKBACK + 2 * DAYS_BACK,
            LOOKBACK + 2 * DAYS_BACK + 1, LOOKBACK + 3 * DAYS_BACK}

(* exact arithmetic on the float values: a number is a reduced fraction *)
Abs(x) == IF x < 0 THEN 0 - x ELSE x
RECURSIVE GCD(_, _)
GCD(a, b) == IF b = 0 THEN a ELSE GCD(b, a % b)
Rat(n, d) ==
    LET g == GCD(Abs(n), Abs(d))
        sgn == IF d < 0 THEN 0 - 1 ELSE 1
    IN [num |-> sgn * (n \div g), den |-> sgn * (d \div g)]
Num(i) == [num |-> i, den |-> 1]
RatAdd(a, b) == Rat(a.num * b.den + b.num * a.den, a.den * b.den)
RatSub(a, b) == Rat(a.num * b.den - b.num * a.den, a.den * b.den)
RatMul(a, b) == Rat(a.num * b.num, a.den * b.den)
RatDiv(a, b) == Rat(a.num * b.den, a.den * b.num)
RatLess(a, b) == a.num * b.den < b.num * a.den
RatAbs(a) == [num |-> Abs(a.num), den |-> a.den]

RS_PERIOD_3M == 63
RS_PERIOD_6M == 126
RS_PERIOD_9M == 189
RS_PERIOD_12M == 252
\* RS_WEIGHTS, in the order of the dict
Periods == <<RS_PERIOD_3M, RS_PERIOD_6M, RS_PERIOD_9M, RS_PERIOD_12M>>
RS_WEIGHTS ==
    [p \in Range(Periods) |->
        CASE p = RS_PERIOD_3M -> Rat(40, 100)
          [] p = RS_PERIOD_6M -> Rat(25, 100)
          [] p = RS_PERIOD_9M -> Rat(20, 100)
          [] p = RS_PERIOD_12M -> Rat(15, 100)]

\* "abs(market_return) < 0.001", the returns being percentages
NearZero == Rat(1, 1000)

\* the relative strength of one period in calculate_weighted_rs
RelativeStrength(stock_return, market_return) ==
    IF RatLess(RatAbs(market_return), NearZero)
    THEN RatSub(stock_return, market_return)
    ELSE LET stock_multiple == RatAdd(Num(1), RatDiv(stock_return, Num(100)))
             market_multiple == RatAdd(Num(1), RatDiv(market_return, Num(100)))
         IN IF RatLess(Num(0), market_multiple)
            THEN RatMul(RatSub(RatDiv(stock_multiple, market_multiple), Num(1)), Num(100))
            ELSE RatSub(stock_return, market_return)

NoValue == [ok |-> FALSE, v |-> Num(0)]
Value(v) == [ok |-> TRUE, v |-> v]

\* the loop "for period, weight in RS_WEIGHTS.items()": the pair
\* <<weighted_rs, total_weight>> after the periods from position i on
RECURSIVE WeightedLoop(_, _, _, _)
WeightedLoop(i, stock_returns, market_returns, acc) ==
    IF i > Len(Periods) THEN acc
    ELSE LET period == Periods[i]
             weight == RS_WEIGHTS[period]
         IN IF period \in DOMAIN stock_returns /\ period \in DOMAIN market_returns
            THEN LET relative_strength ==
                         RelativeStrength(stock_returns[period], market_returns[period])
                 IN WeightedLoop(i + 1, stock_returns, market_returns,
                        <<RatAdd(acc[1], RatMul(relative_strength, weight)),
                          RatAdd(acc[2], weight)>>)
            ELSE WeightedLoop(i + 1, stock_returns, market_returns, acc)

CalculateWeightedRsZeroing(stock_returns, market_returns) ==
    IF DOMAIN stock_returns = {} \/ DOMAIN market_returns = {} THEN NoValue
    ELSE LET r == WeightedLoop(1, stock_returns, market_returns, <<Num(0), Num(0)>>)
         IN IF r[2] = Num(0) THEN NoValue ELSE Value(r[1])

CalculateWeightedRs(stock_returns, market_returns) ==
    IF DOMAIN stock_returns = {} \/ DOMAIN market_returns = {} THEN NoValue
    ELSE LET r == WeightedLoop(1, stock_returns, market_returns, <<Num(0), Num(0)>>)
         IN IF r[2] = Num(0) THEN NoValue
            ELSE IF r[2] # Num(1) THEN Value(RatDiv(r[1], r[2]))
            ELSE Value(r[1])

\* the returns handed to calculate_weighted_rs: per period a pair of
\* percentages, or a return that is missing
Missing == [num |-> 0, den |-> 0]
ReturnPairs == { <<Missing, Missing>>, <<Num(10), Missing>>, <<Num(10), Num(0)>>,
                 <<Num(100), Num(10)>>, <<Num(0), Num(0 - 50)>> }
StockReturns == {Num(0), Num(10), Num(100), Num(0 - 50)}
MarketReturns == {Num(0), Rat(1, 2000), Rat(1, 1000), Rat(1, 20), Rat(0 - 1, 20),
                  Rat(1, 10), Num(10), Num(0 - 100), Num(0 - 150)}
\* a key that is no configured period
OtherPeriods == {21}
ReturnsOf(choice, side) ==
    [p \in {q \in DOMAIN choice : choice[q][side] # Missing} |-> choice[p][side]]
ReturnChoices ==
    [Range(Periods) -> ReturnPairs]
        \cup { [p \in {q} \cup OtherPeriods |-> <<sr, mr>>] :
                 q \in Range(Periods), sr \in StockReturns, mr \in MarketReturns }
        \cup { [p \in OtherPeriods |-> <<Num(10), Num(0)>>] }

(* floating point: a result is rounded to the nearest number with MantBits *)
(* significant bits, ties to even (IEEE 754 with a shorter significand and *)
(* no exponent limits)                                                     *)
RECURSIVE Pow2(_)
Pow2(k) == IF k = 0 THEN 1 ELSE 2 * Pow2(k - 1)
RECURSIVE FlPos(_, _)
FlPos(n, d) ==
    IF n >= d * Pow2(MantBits) THEN RatMul(Num(2), FlPos(n, 2 * d))
    ELSE IF n < d * Pow2(MantBits - 1) THEN RatDiv(FlPos(2 * n, d), Num(2))
    ELSE Num(RoundHalfEven(n, d))
Fl(r) ==
    IF r.num = 0 THEN r
    ELSE IF r.num < 0 THEN RatSub(Num(0), FlPos(0 - r.num, r.den))
    ELSE FlPos(r.num, r.den)

\* a null price
NaN == [num |-> 0, den |-> 0]

\* calculate_period_return(price_series, period_days); the series is in
\* date order
CalculatePeriodReturnShortAnchor(price_series, period_days) ==
    IF Len(price_series) < period_days + 1 THEN NoValue
    ELSE LET current_price == price_series[Len(price_series)]
             past_price == price_series[Len(price_series) - period_days + 1]
         IN IF current_price = NaN \/ past_price = NaN THEN NoValue
            ELSE IF ~RatLess(Num(0), past_price) THEN NoValue
            ELSE Value(Fl(RatMul(Fl(RatSub(Fl(RatDiv(current_price, past_price)),
                                           Num(1))), Num(100))))

CalculatePeriodReturnAbsolute(price_series, period_days) ==
    IF Len(price_series) < period_days + 1 THEN NoValue
    ELSE LET current_price == price_series[Len(price_series)]
             past_price == price_series[Len(price_series) - period_days]
         IN IF current_price = NaN \/ past_price = NaN THEN NoValue
            ELSE IF ~RatLess(Num(0), past_price) THEN NoValue
            ELSE Value(Fl(RatMul(Fl(RatSub(current_price, past_price)), Num(100))))

CalculatePeriodReturn(price_series, period_days) ==
    IF Len(price_series) < period_days + 1 THEN NoValue
    ELSE LET current_price == price_series[Len(price_series)]
             past_price == price_series[Len(price_series) - period_days]
         IN IF current_price = NaN \/ past_price = NaN THEN NoValue
            ELSE IF ~RatLess(Num(0), past_price) THEN NoValue
            ELSE Value(Fl(RatMul(Fl(RatSub(Fl(RatDiv(current_price, past_price)),
                                           Num(1))), Num(100))))

\* the series k * S
Scaled(price_series, k) ==
    [i \in DOMAIN price_series |->
        IF price_series[i] = NaN THEN NaN ELSE Fl(RatMul(k, price_series[i]))]

PriceValues == {NaN, Num(0 - 1), Num(0), Num(1), Num(3), Num(5), Num(7)}
PriceSeries == UNION {[1..n -> PriceValues] : n \in 1..MaxSeriesLen}
PeriodDays == 1..(MaxSeriesLen - 1)
Scales == {Rat(1, 2), Num(2), Num(4), Num(3), Num(5), Num(11)}

\* A dated series is a function from its dates to prices; in date order:
SortedDates(D) ==
    IF D = {} THEN <<>>
    ELSE LET hi == CHOOSE d \in D : \A e \in D : e <= d
         IN SelectSeq([i \in 1..hi |-> i], LAMBDA d : d \in D)
\* series.loc[dates].sort_index()
Aligned(series, dates) ==
    LET ds == SortedDates(dates) IN [i \in DOMAIN ds |-> series[ds[i]]]

\* the loop over the four periods: the dict of the returns that are not None
PeriodReturns(price_series) ==
    [p \in {q \in Range(Periods) : CalculatePeriodReturn(price_series, q).ok} |->
        CalculatePeriodReturn(price_series, p).v]

Positive(x) == x # NaN /\ RatLess(Num(0), x)
NoRaw == [ok |-> FALSE, weighted_rs |-> NoValue, rs_line |-> <<>>]

\* calculate_rs_raw(stock_price_series, market_price_series)
CalculateRsRawShort(stock, market) ==
    LET common_dates == DOMAIN stock \cap DOMAIN market
    IN IF Cardinality(common_dates) < Max2(RS_PERIOD_12M, 10) THEN NoRaw
       ELSE LET stock_prices == Aligned(stock, common_dates)
                market_prices == Aligned(market, common_dates)
                weighted_rs == CalculateWeightedRs(PeriodReturns(stock_prices),
                                                   PeriodReturns(market_prices))
                valid == {d \in common_dates : Positive(stock[d]) /\ Positive(market[d])}
            IN IF ~weighted_rs.ok THEN NoRaw
               ELSE IF valid = {} THEN NoRaw
               ELSE [ok |-> TRUE, weighted_rs |-> weighted_rs,
                     rs_line |-> [d \in valid |-> Fl(RatDiv(stock[d], market[d]))]]

CalculateRsRaw(stock, market) ==
    LET common_dates == DOMAIN stock \cap DOMAIN market
    IN IF Cardinality(common_dates) < Max2(RS_PERIOD_12M + 1, 10) THEN NoRaw
       ELSE LET stock_prices == Aligned(stock, common_dates)
                market_prices == Aligned(market, common_dates)
                weighted_rs == CalculateWeightedRs(PeriodReturns(stock_prices),
                                                   PeriodReturns(market_prices))
                valid == {d \in common_dates : Positive(stock[d]) /\ Positive(market[d])}
            IN IF ~weighted_rs.ok THEN NoRaw
               ELSE IF valid = {} THEN NoRaw
               ELSE [ok |-> TRUE, weighted_rs |-> weighted_rs,
                     rs_line |-> [d \in valid |-> Fl(RatDiv(stock[d], market[d]))]]

\* the series handed to calculate_rs_raw: dates lo..hi, the price level up
\* over the last quarter, and bad prices (null, zero, negative) at some dates
RawLens == {RS_PERIOD_12M, RS_PERIOD_12M + 1, RS_PERIOD_12M + 2}
AnchorDates(hi) == {hi - p : p \in Range(Periods)}
BadDates(lo, hi) == {{}, {lo}, {hi}, AnchorDates(hi) \cap lo..hi, lo..hi}
BadPrices == {NaN, Num(0), Num(0 - 1)}
DatedSeries(level) ==
    UNION { { [d \in lo..hi |-> IF d \in B THEN bad
                          ELSE IF d > hi - RS_PERIOD_3M THEN level ELSE Num(1)] :
                B \in BadDates(lo, hi), bad \in BadPrices } :
            lo \in 1..2, hi \in RawLens }

\* is_leader_stock(price_data, rs_score): the rating a leader exceeds and the
\* windows of the two moving averages
LEADER_RS == 80
SMA_SHORT == 50
SMA_LONG == 200

\* series.dropna()
DropNa(series) == SelectSeq(series, LAMBDA x : x # NaN)
\* the sum of series[lo..hi]
RECURSIVE SumRange(_, _, _)
SumRange(series, lo, hi) ==
    IF lo > hi THEN Num(0)
    ELSE IF lo = hi THEN series[lo]
    ELSE LET mid == (lo + hi) \div 2
         IN RatAdd(SumRange(series, lo, mid), SumRange(series, mid + 1, hi))
SumLast(series, w) == SumRange(series, Len(series) - w + 1, Len(series))
\* prices.rolling(window=w).mean().iloc[-1] of the valid prices, at least w
RollingMeanLast(closes, w) == Fl(RatDiv(SumLast(closes, w), Num(w)))

\* price_data is the record of its columns
PriceCol(price_data) ==
    IF "Adj Close" \in DOMAIN price_data THEN "Adj Close" ELSE "Close"

IsLeaderStockInclusive(price_data, rs_score) ==
    IF rs_score < LEADER_RS THEN FALSE
    ELSE IF PriceCol(price_data) \notin DOMAIN price_data THEN FALSE
    ELSE LET closes == DropNa(price_data[PriceCol(price_data)])
         IN IF Len(closes) < SMA_LONG THEN FALSE
            ELSE LET sma50 == RollingMeanLast(closes, SMA_SHORT)
                     sma200 == RollingMeanLast(closes, SMA_LONG)
                     current_price == closes[Len(closes)]
                 IN RatLess(sma50, current_price) /\ RatLess(sma200, sma50)

IsLeaderStock(price_data, rs_score) ==
    IF rs_score <= LEADER_RS THEN FALSE
    ELSE IF PriceCol(price_data) \notin DOMAIN price_data THEN FALSE
    ELSE LET closes == DropNa(price_data[PriceCol(price_data)])
         IN IF Len(closes) < SMA_LONG THEN FALSE
            ELSE LET sma50 == RollingMeanLast(closes, SMA_SHORT)
                     sma200 == RollingMeanLast(closes, SMA_LONG)
                     current_price == closes[Len(closes)]
                 IN RatLess(sma50, current_price) /\ RatLess(sma200, sma50)

\* the frames handed to is_leader_stock: columns of 199 to 201 rows that are
\* flat, rise or fall over the last 50 rows, with nulls at some rows
LeaderLens == {SMA_LONG - 1, SMA_LONG, SMA_LONG + 1}
Shapes == {"flat", "up", "step", "down"}
ShapedPrice(shape, i, n) ==
    CASE shape = "flat" -> Num(2)
      [] shape = "up" -> IF i = n THEN Num(4) ELSE IF i > n - SMA_SHORT THEN Num(3) ELSE Num(2)
      [] shape = "step" -> IF i > n - SMA_SHORT THEN Num(3) ELSE Num(2)
      [] shape = "down" -> IF i = n THEN Num(2) ELSE IF i > n - SMA_SHORT THEN Num(1) ELSE Num(2)
NullRows(n) == {{}, {1}, {n}, {n - 1, n}}
Columns ==
    UNION { { [i \in 1..n |-> IF i \in N THEN NaN ELSE ShapedPrice(shape, i, n)] :
                shape \in Shapes, N \in NullRows(n) } : n \in LeaderLens }
\* an "Adj Close" column follows the "Close" column or is flat
Frames ==
    { [c \in {"Volume"} |-> <<>>] }
        \cup { [c \in {"Close"} |-> close] : close \in Columns }
        \cup { [c \in {"Adj Close"} |-> adj] : adj \in Columns }
        \cup UNION { { [c \in {"Close", "Adj Close"} |-> IF c = "Close" THEN close ELSE adj] :
                         adj \in {a \in Columns : Len(a) = Len(close)} } :
                     close \in Columns }
Ratings == {LEADER_RS - 1, LEADER_RS, LEADER_RS + 1, MAX_SCORE}

\* check_rs_line_52w_high(stock_price_data, market_price_data): the frames
\* are records of dated columns; 252 rows stand for 52 weeks
WEEKS_52 == 252
\* column.dropna(), as the dates it keeps
ValidDates(column) == {d \in DOMAIN column : column[d] # NaN}
RatMax(S) == CHOOSE x \in S : \A y \in S : ~RatLess(x, y)
\* series.tail(n)
LastRows(series, n) == SubSeq(series, Max2(1, Len(series) - n + 1), Len(series))

CheckRsLine52wHighStrict(stock_price_data, market_price_data) ==
    LET stock_col == PriceCol(stock_price_data)
        market_col == PriceCol(market_price_data)
    IN IF stock_col \notin DOMAIN stock_price_data
          \/ market_col \notin DOMAIN market_price_data THEN FALSE
       ELSE LET common_dates == ValidDates(stock_price_data[stock_col])
                                    \cap ValidDates(market_price_data[market_col])
            IN IF Cardinality(common_dates) < WEEKS_52 THEN FALSE
               ELSE LET stock_prices == Aligned(stock_price_data[stock_col], common_dates)
                        market_prices == Aligned(market_price_data[market_col], common_dates)
                        rs_line == [i \in DOMAIN stock_prices |->
                                       Fl(RatDiv(stock_prices[i], market_prices[i]))]
                        rs_line_52w == LastRows(rs_line, WEEKS_52)
                        current_rs == rs_line_52w[Len(rs_line_52w)]
                        max_rs_52w == RatMax(Range(SubSeq(rs_line_52w, 1, Len(rs_line_52w) - 1)))
                    IN RatLess(max_rs_52w, current_rs)

CheckRsLine52wHigh(stock_price_data, market_price_data) ==
    LET stock_col == PriceCol(stock_price_data)
        market_col == PriceCol(market_price_data)
    IN IF stock_col \notin DOMAIN stock_price_data
          \/ market_col \notin DOMAIN market_price_data THEN FALSE
       ELSE LET common_dates == ValidDates(stock_price_data[stock_col])
                                    \cap ValidDates(market_price_data[market_col])
            IN IF Cardinality(common_dates) < WEEKS_52 THEN FALSE
               ELSE LET stock_prices == Aligned(stock_price_data[stock_col], common_dates)
                        market_prices == Aligned(market_price_data[market_col], common_dates)
                        rs_line == [i \in DOMAIN stock_prices |->
                                       Fl(RatDiv(stock_prices[i], market_prices[i]))]
                        rs_line_52w == LastRows(rs_line, WEEKS_52)
                        current_rs == rs_line_52w[Len(rs_line_52w)]
                        max_rs_52w == RatMax(Range(SubSeq(rs_line_52w, 1, Len(rs_line_52w) - 1)))
                    IN ~RatLess(current_rs, max_rs_52w)

\* the frames handed to check_rs_line_52w_high: columns over the dates
\* lo..hi, level but for a peak or for the last row, with nulls at some dates
HighEnds == {WEEKS_52 - 1, WEEKS_52, WEEKS_52 + 1, WEEKS_52 + 2}
HighShapes == {"level", "old peak", "peak", "new high", "dip"}
HighPrice(shape, d, hi) ==
    CASE shape = "level" -> Num(2)
      [] shape = "old peak" -> IF d = hi - WEEKS_52 THEN Num(5) ELSE Num(2)
      [] shape = "peak" -> IF d = hi - WEEKS_52 + 1 THEN Num(5) ELSE Num(2)
      [] shape = "new high" -> IF d = hi THEN Num(3) ELSE Num(2)
      [] shape = "dip" -> IF d = hi THEN Num(1) ELSE Num(2)
HighNulls(lo, hi) == {{}, {lo + 1}, {hi - WEEKS_52 + 1}, {hi}}
HighColumns(shapes, los, ends) ==
    UNION { { [d \in lo..hi |-> IF d \in N THEN NaN ELSE HighPrice(shape, d, hi)] :
                shape \in shapes, N \in HighNulls(lo, hi) } :
            lo \in los, hi \in ends }
LevelColumn(column) == [d \in DOMAIN column |-> Num(2)]
\* a frame has a "Close" column, or an "Adj Close" column beside a level
\* "Close", or neither
StockFrames ==
    { [c \in {"Volume"} |-> <<>>] }
        \cup { [c \in {"Close"} |-> column] :
                 column \in HighColumns(HighShapes, 1..2, HighEnds) }
        \cup { [c \in {"Close", "Adj Close"} |->
                   IF c = "Close" THEN LevelColumn(column) ELSE column] :
                 column \in HighColumns(HighShapes, {2}, HighEnds) }
MarketFrames ==
    { [c \in {"Volume"} |-> <<>>] }
        \cup { [c \in {"Close"} |-> column] :
                 column \in HighColumns({"level", "dip"}, {1}, {WEEKS_52, WEEKS_52 + 2}) }

\* calculate_rs_trend(stock_price_data, market_price_data, days=20)
TREND_DAYS == 20
\* the arrow turns at half a percent per day
TrendStep == Rat(1, 2)
NoTrend == [slope |-> NoValue, arrow |-> "flat"]

\* np.polyfit(x, y, 1)[0] for x = 0..Len(y)-1: the least-squares slope
PolyfitSlope(y) ==
    LET n == Len(y)
        sx == SumRange([i \in 1..n |-> Num(i - 1)], 1, n)
        sxx == SumRange([i \in 1..n |-> Num((i - 1) * (i - 1))], 1, n)
        sy == SumRange(y, 1, n)
        sxy == SumRange([i \in 1..n |-> RatMul(Num(i - 1), y[i])], 1, n)
    IN Fl(RatDiv(RatSub(RatMul(Num(n), sxy), RatMul(sx, sy)),
                 RatSub(RatMul(Num(n), sxx), RatMul(sx, sx))))

Arrow(slope_pct) ==
    IF RatLess(TrendStep, slope_pct) THEN "rising"
    ELSE IF RatLess(slope_pct, RatSub(Num(0), TrendStep)) THEN "falling"
    ELSE "flat"

CalculateRsTrendAnyLength(stock_price_data, market_price_data, days) ==
    LET stock_col == PriceCol(stock_price_data)
        market_col == PriceCol(market_price_data)
    IN IF stock_col \notin DOMAIN stock_price_data
          \/ market_col \notin DOMAIN market_price_data THEN NoTrend
       ELSE LET common_dates == ValidDates(stock_price_data[stock_col])
                                    \cap ValidDates(market_price_data[market_col])
                recent_stock ==
                    LastRows(Aligned(stock_price_data[stock_col], common_dates), days)
                recent_market ==
                    LastRows(Aligned(market_price_data[market_col], common_dates), days)
                rs_line == [i \in DOMAIN recent_stock |->
                               Fl(RatDiv(recent_stock[i], recent_market[i]))]
            IN IF Len(rs_line) < 2 THEN NoTrend
               ELSE LET slope == PolyfitSlope(rs_line)
                        slope_pct == IF rs_line[1] # Num(0)
                                     THEN Fl(RatMul(Fl(RatDiv(slope, rs_line[1])), Num(100)))
                                     ELSE Num(0)
                    IN [slope |-> Value(slope_pct), arrow |-> Arrow(slope_pct)]

CalculateRsTrend(stock_price_data, market_price_data, days) ==
    LET stock_col == PriceCol(stock_price_data)
        market_col == PriceCol(market_price_data)
    IN IF stock_col \notin DOMAIN stock_price_data
          \/ market_col \notin DOMAIN market_price_data THEN NoTrend
       ELSE LET common_dates == ValidDates(stock_price_data[stock_col])
                                    \cap ValidDates(market_price_data[market_col])
                recent_stock ==
                    LastRows(Aligned(stock_price_data[stock_col], common_dates), days)
                recent_market ==
                    LastRows(Aligned(market_price_data[market_col], common_dates), days)
                rs_line == [i \in DOMAIN recent_stock |->
                               Fl(RatDiv(recent_stock[i], recent_market[i]))]
            IN IF Cardinality(common_dates) < days THEN NoTrend
               ELSE IF Len(rs_line) < 2 THEN NoTrend
               ELSE LET slope == PolyfitSlope(rs_line)
                        slope_pct == IF rs_line[1] # Num(0)
                                     THEN Fl(RatMul(Fl(RatDiv(slope, rs_line[1])), Num(100)))
                                     ELSE Num(0)
                    IN [slope |-> Value(slope_pct), arrow |-> Arrow(slope_pct)]

\* the frames handed to calculate_rs_trend: level columns over the dates
\* lo..hi but for the last row or for a row 20 days back, with nulls
TrendEnds == {TREND_DAYS - 1, TREND_DAYS, TREND_DAYS + 1, TREND_DAYS + 2}
TrendLasts == {Num(12), Num(13), Num(20), Num(27), Num(28)}
TrendOlds == {Num(20), Num(40)}
TrendNulls(lo, hi) == {{}, {lo}, {hi}}
TrendColumns(los, ends, lasts, olds, level) ==
    UNION { { [d \in lo..hi |-> IF d \in N THEN NaN
                                ELSE IF d = hi THEN last
                                ELSE IF d = hi - TREND_DAYS THEN old
                                ELSE level] :
                last \in lasts, old \in olds, N \in TrendNulls(lo, hi) } :
            lo \in los, hi \in ends }
TrendStockFrames ==
    { [c \in {"Volume"} |-> <<>>] }
        \cup { [c \in {"Close"} |-> column] :
                 column \in TrendColumns(1..2, TrendEnds, TrendLasts, TrendOlds, Num(20)) }
        \cup { [c \in {"Close", "Adj Close"} |->
                   IF c = "Close" THEN [d \in DOMAIN column |-> Num(20)] ELSE column] :
                 column \in TrendColumns({1}, TrendEnds, TrendLasts, {Num(20)}, Num(20)) }
TrendMarketFrames ==
    { [c \in {"Close"} |-> column] :
        column \in TrendColumns({1}, {TREND_DAYS, TREND_DAYS + 2}, {Num(1)}, {Num(1)}, Num(1)) }

\* DataFetcher.fetch_single_ticker(ticker, retry_count=2)
LOOKBACK_PERIOD == 252
MIN_DATA_POINTS == LOOKBACK_PERIOD + 10
MISSING_DATA_THRESHOLD == Rat(1, 10)
RETRY_COUNT == 2
NoFrame == [ok |-> FALSE, df |-> <<>>]

\* what one attempt gets from yfinance: both methods raise, an empty frame,
\* or a frame (a record of columns of rows)
Raises == [got |-> "raises"]
Empty == [got |-> "empty"]
Got(df) == [got |-> "frame", df |-> df]

\* column.ffill().bfill()
FfillBfill(column) ==
    LET valid == {j \in DOMAIN column : column[j] # NaN}
        Before(i) == {j \in valid : j < i}
        After(i) == {j \in valid : j > i}
        Last(S) == CHOOSE j \in S : \A k \in S : k <= j
        First(S) == CHOOSE j \in S : \A k \in S : j <= k
    IN [i \in DOMAIN column |->
          IF column[i] # NaN THEN column[i]
          ELSE IF Before(i) # {} THEN column[Last(Before(i))]
          ELSE IF After(i) # {} THEN column[First(After(i))]
          ELSE NaN]

\* lines 153-176: the checks on the frame that was downloaded
CheckAndFill(df) ==
    IF "Close" \notin DOMAIN df THEN NoFrame
    ELSE IF Len(df["Close"]) < MIN_DATA_POINTS THEN NoFrame
    ELSE LET missing == Cardinality({i \in DOMAIN df["Close"] : df["Close"][i] = NaN})
         IN IF RatLess(MISSING_DATA_THRESHOLD, Rat(missing, Len(df["Close"]))) THEN NoFrame
            ELSE [ok |-> TRUE,
                  df |-> [c \in DOMAIN df |->
                             IF c = "Close" THEN FfillBfill(df[c]) ELSE df[c]]]

\* the retry loop over the attempts, from attempt i on
RECURSIVE FetchFrom(_, _)
FetchFrom(i, attempts) ==
    IF i > RETRY_COUNT THEN NoFrame
    ELSE IF attempts[i].got = "frame" THEN CheckAndFill(attempts[i].df)
    ELSE IF attempts[i].got = "raises" /\ i = RETRY_COUNT THEN NoFrame
    ELSE FetchFrom(i + 1, attempts)
FetchSingleTicker(attempts) == FetchFrom(1, attempts)

\* the frames yfinance returns: 261 to 263 rows, nulls in the closes up to
\* and beyond a tenth of the rows, with or without adjusted closes
FetchLens == {MIN_DATA_POINTS - 1, MIN_DATA_POINTS, MIN_DATA_POINTS + 1}
CloseNulls(n) == {{}, {1}, {n}, 1..(n \div 10), 1..(n \div 10 + 1), 1..n}
RowsWith(n, N) == [i \in 1..n |-> IF i \in N THEN NaN ELSE Num(2)]
FetchedFrames ==
    UNION { { [c \in {"Close"} |-> RowsWith(n, N)] : N \in CloseNulls(n) }
              \cup { [c \in {"Close", "Adj Close"} |-> RowsWith(n, N)] : N \in CloseNulls(n) }
              \cup { [c \in {"Close", "Adj Close"} |->
                         IF c = "Close" THEN RowsWith(n, {}) ELSE RowsWith(n, N)] :
                       N \in CloseNulls(n) }
              \cup { [c \in {"Volume"} |-> RowsWith(n, {})] } :
            n \in FetchLens }
AttemptResults == {Raises, Empty} \cup {Got(df) : df \in FetchedFrames}
Attempts ==
    { <<a, Raises>> : a \in AttemptResults }
        \cup { <<a, b>> : a \in {Raises, Empty}, b \in AttemptResults }

\* run_rs_ranking(tickers, save_csv, print_report) with the Reporter; a path
\* is the sequence of its components, relative to the working directory
OUTPUT_DIR == <<"output">>
\* os.path.join(OUTPUT_DIR, "rs_rankings.csv")
RANKINGS_CSV == OUTPUT_DIR \o <<"rs_rankings.csv">>
IsAbs(path) == Len(path) > 0 /\ path[1] = "/"
PathJoin(a, b) == IF IsAbs(b) THEN b ELSE a \o b
Dirname(path) == SubSeq(path, 1, Len(path) - 1)

\* Reporter.save_to_csv(rankings_df, filename=RANKINGS_CSV)
SavePath(output_dir, filename) ==
    IF ~IsAbs(filename) THEN PathJoin(output_dir, filename) ELSE filename

\* what the provider has for a ticker: no frame, a frame from which no RS can
\* be computed, or a frame with its weighted RS
NoFrameFor == [fetched |-> FALSE, computable |-> FALSE, rs |-> 0]
NoRsFor == [fetched |-> TRUE, computable |-> FALSE, rs |-> 0]
RsFor(v) == [fetched |-> TRUE, computable |-> TRUE, rs |-> v]
Provided == {NoFrameFor, NoRsFor} \cup {RsFor(v) : v \in RankValues}
\* the directories that exist before the run
DirStates == {{}, {OUTPUT_DIR}, {OUTPUT_DIR, OUTPUT_DIR \o OUTPUT_DIR}}

Ended(raised, returned, rows, dirs, files) ==
    [raised |-> raised, returned |-> returned, rows |-> rows, dirs |-> dirs, files |-> files]

\* run_rs_ranking: the outcomes for the provider's answers, the benchmark
\* frame and the directories found
RunRsRanking(tickers, save_csv, provided, benchmark_ok, dirs) ==
    LET ticker_data == {t \in tickers : provided[t].fetched}
        rs_raw_dict == [t \in {u \in ticker_data : provided[u].computable} |-> provided[t].rs]
        made == dirs \cup {OUTPUT_DIR}
        filepath == SavePath(OUTPUT_DIR, RANKINGS_CSV)
    IN IF ticker_data = {} THEN {Ended(FALSE, "None", <<>>, dirs, << >>)}
       ELSE IF ~benchmark_ok THEN {Ended(FALSE, "None", <<>>, dirs, << >>)}
       ELSE IF DOMAIN rs_raw_dict = {} THEN {Ended(FALSE, "None", <<>>, dirs, << >>)}
       ELSE { IF ~save_csv THEN Ended(FALSE, "table", rankings_df, made, << >>)
              ELSE IF Dirname(filepath) \notin made
                   THEN Ended(TRUE, "", <<>>, made, << >>)
                   ELSE Ended(FALSE, "table", rankings_df, made,
                              [p \in {filepath} |-> rankings_df]) :
                rankings_df \in RankRsScores(rs_raw_dict) }

\* calculate_rs_1w_ago(ticker, price_data, market_rs_distribution,
\* market_benchmark) as a call on a list object: the list after the call.
\* percentileofscore copies the list into an array and nothing else in the
\* function touches it.
DistributionExtended(D, rs_raw_1w_ago) == Append(D, rs_raw_1w_ago)
DistributionAfter(D, rs_raw_1w_ago) == D
\* the distributions handed in, sorted or not
GivenDists == {<<>>, <<1>>, <<2, 1>>, <<1, 2, 2>>, <<0, 2, 1>>}

\* calculate_multi_period_rs(stock_price_series, market_price_series,
\* periods): periods is None or a dict, here the sequence of its items
NoPeriods == [given |-> FALSE, items |-> <<>>]
PeriodDict(items) == [given |-> TRUE, items |-> items]
\* the loop "for period, weight in periods.items()" over the returns of the
\* two series as they were handed in: <<weighted_rs, total_weight>>
RECURSIVE CustomLoop(_, _, _, _, _)
CustomLoop(i, periods, stock_prices, market_prices, acc) ==
    IF i > Len(periods) THEN acc
    ELSE LET period == periods[i][1]
             weight == periods[i][2]
             stock_return == CalculatePeriodReturn(stock_prices, period)
             market_return == CalculatePeriodReturn(market_prices, period)
         IN IF stock_return.ok /\ market_return.ok
            THEN LET relative_strength == RatSub(stock_return.v, market_return.v)
                 IN CustomLoop(i + 1, periods, stock_prices, market_prices,
                        <<RatAdd(acc[1], RatMul(relative_strength, weight)),
                          RatAdd(acc[2], weight)>>)
            ELSE CustomLoop(i + 1, periods, stock_prices, market_prices, acc)

CalculateMultiPeriodRs(stock, market, periods) ==
    IF ~periods.given
    THEN LET result == CalculateRsRaw(stock, market)
         IN IF result.ok THEN result.weighted_rs ELSE NoValue
    ELSE LET r == CustomLoop(1, periods.items, Aligned(stock, DOMAIN stock),
                             Aligned(market, DOMAIN market), <<Num(0), Num(0)>>)
         IN IF r[2] = Num(0) THEN NoValue ELSE Value(RatDiv(r[1], r[2]))

\* the items of RS_WEIGHTS
DefaultPeriods ==
    PeriodDict([i \in DOMAIN Periods |-> <<Periods[i], RS_WEIGHTS[Periods[i]]>>])
PeriodMaps ==
    {NoPeriods, DefaultPeriods, PeriodDict(<<>>)}
        \cup { PeriodDict(<<<<p, Num(1)>>>>) : p \in Range(Periods) }
        \cup { PeriodDict(<<<<RS_PERIOD_3M, Num(1)>>, <<RS_PERIOD_6M, Num(0 - 1)>>>>),
               PeriodDict(<<<<RS_PERIOD_3M, Rat(1, 2)>>, <<RS_PERIOD_12M, Rat(1, 2)>>>>) }
\* series over the dates lo..hi whose last price, or none, is bad
MultiSeries(level) ==
    { s \in DatedSeries(level) :
        \A d \in DOMAIN s : s[d] \in BadPrices => (d + 1 \notin DOMAIN s /\ s[d] = NaN) }

\* the dashboard's indicator step.  A function's signature: its parameters
\* in order and those with a default
Signature(params, defaults) == [params |-> params, defaults |-> defaults]
CalculateSma50DistanceSig == Signature(<<"price_data">>, {})
CalculateRsTrendSig ==
    Signature(<<"stock_price_data", "market_price_data", "days">>, {"days"})
CalculateVolumeSurgeSig == Signature(<<"price_data">>, {})
CheckRsLine52wHighSig == Signature(<<"stock_price_data", "market_price_data">>, {})
IsLeaderStockSig == Signature(<<"price_data", "rs_score">>, {})
\* Python binds a call's arguments or raises TypeError: too many positional
\* arguments, an unexpected keyword, a parameter given twice, or a
\* parameter without default left out
Accepts(sig, positional, keywords) ==
    /\ positional <= Len(sig.params)
    /\ keywords \subseteq Range(sig.params)
    /\ \A i \in 1..positional : sig.params[i] \notin keywords
    /\ \A i \in DOMAIN sig.params :
         i <= positional \/ sig.params[i] \in keywords \/ sig.params[i] \in sig.defaults

\* the indicator calls the loop body makes for one row, in order
IndicatorCalls(benchmark) ==
    <<[sig |-> CalculateSma50DistanceSig, positional |-> 1, keywords |-> {}]>>
    \o (IF benchmark = "frame"
        THEN <<[sig |-> CalculateRsTrendSig, positional |-> 2, keywords |-> {}],
               [sig |-> CheckRsLine52wHighSig, positional |-> 0,
                keywords |-> {"stock_price_data", "market_price_data", "rs_line_series"}]>>
        ELSE <<>>)
    \o <<[sig |-> CalculateVolumeSurgeSig, positional |-> 1, keywords |-> {}],
         [sig |-> IsLeaderStockSig, positional |-> 2, keywords |-> {}]>>
RowAccepted(benchmark) ==
    \A i \in DOMAIN IndicatorCalls(benchmark) :
        LET c == IndicatorCalls(benchmark)[i]
        IN Accepts(c.sig, c.positional, c.keywords)

\* "for idx, row in rankings_df.iterrows()": the tickers of indicators_data,
\* or the TypeError that leaves the loop
RECURSIVE IndicatorLoop(_, _, _, _)
IndicatorLoop(rankings_df, i, benchmark, indicators_data) ==
    IF i > Len(rankings_df) THEN [raised |-> FALSE, indicators_data |-> indicators_data]
    ELSE IF rankings_df[i].price_data = "None"
    THEN IndicatorLoop(rankings_df, i + 1, benchmark, indicators_data)
    ELSE IF ~RowAccepted(benchmark)
    THEN [raised |-> TRUE, indicators_data |-> indicators_data]
    ELSE IndicatorLoop(rankings_df, i + 1, benchmark,
                       Append(indicators_data, rankings_df[i].ticker))

\* the run of the dashboard from the ranked table on: st.stop() on an empty
\* table, else the indicator step; an exception reaches "except Exception"
\* and the error display
IndicatorStep(rankings_df, benchmark) ==
    IF rankings_df = <<>> THEN [shown |-> "stopped", indicators_data |-> <<>>]
    ELSE LET r == IndicatorLoop(rankings_df, 1, benchmark, <<>>)
         IN [shown |-> IF r.raised THEN "error" ELSE "results",
             indicators_data |-> r.indicators_data]

\* ranked tables of up to two rows, with or without price data, and what the
\* dashboard's own benchmark fetch returns
TableRows == {[ticker |-> t, price_data |-> p] : t \in RankTickers, p \in {"None", "frame"}}
RankedTables ==
    {<<>>} \cup {<<r>> : r \in TableRows}
           \cup {t \in TableRows \X TableRows : t[1].ticker # t[2].ticker}
Benchmarks == {"None", "empty", "frame"}

InitCalc ==
    /\ RunOff
    /\ RankIdle
    /\ fn_pc = "in" /\ fn_in = NoCall /\ fn_out = NoCall

\* calculate_rs_1w_ago(ticker, price_data, distribution, benchmark), as far
\* as the series it hands on
LaggedSeriesCall ==
    /\ fn_pc = "in"
    /\ \E n \in LagLens, m \in LagLens :
         /\ fn_in' = [f |-> "calculate_rs_1w_ago", stock |-> Dates(n), market |-> Dates(m)]
         /\ fn_out' = LaggedSeries(Dates(n), Dates(m))
    /\ fn_pc' = "calculate_rs_1w_ago"
    /\ UNCHANGED <<prices, cacheVars, runVars, rankVars>>

\* RSCalculator().calculate_weighted_rs(stock_returns, market_returns)
WeightedRsCall ==
    /\ fn_pc = "in"
    /\ \E c \in ReturnChoices :
         /\ fn_in' = [f |-> "calculate_weighted_rs",
                      stock_returns |-> ReturnsOf(c, 1), market_returns |-> ReturnsOf(c, 2)]
         /\ fn_out' = CalculateWeightedRs(ReturnsOf(c, 1), ReturnsOf(c, 2))
    /\ fn_pc' = "calculate_weighted_rs"
    /\ UNCHANGED <<prices, cacheVars, runVars, rankVars>>

\* RSCalculator().calculate_period_return on a series S and on k * S
PeriodReturnCall ==
    /\ fn_pc = "in"
    /\ \E S \in PriceSeries, period_days \in PeriodDays, k \in Scales :
         /\ fn_in' = [f |-> "calculate_period_return", price_series |-> S,
                      period_days |-> period_days, k |-> k]
         /\ fn_out' = [ok |-> CalculatePeriodReturn(S, period_days).ok,
                       v |-> CalculatePeriodReturn(S, period_days).v,
                       scaled |-> CalculatePeriodReturn(Scaled(S, k), period_days)]
    /\ fn_pc' = "calculate_period_return"
    /\ UNCHANGED <<prices, cacheVars, runVars, rankVars>>

\* RSCalculator().calculate_rs_raw(stock_price_series, market_price_series)
RsRawCall ==
    /\ fn_pc = "in"
    /\ \E stock \in DatedSeries(Num(3)), market \in DatedSeries(Num(2)) :
         /\ fn_in' = [f |-> "calculate_rs_raw", stock |-> stock, market |-> market]
         /\ fn_out' = CalculateRsRaw(stock, market)
    /\ fn_pc' = "calculate_rs_raw"
    /\ UNCHANGED <<prices, cacheVars, runVars, rankVars>>

\* is_leader_stock(price_data, rs_score)
LeaderCall ==
    /\ fn_pc = "in"
    /\ \E price_data \in Frames, rs_score \in Ratings :
         /\ fn_in' = [f |-> "is_leader_stock", price_data |-> price_data,
                      rs_score |-> rs_score]
         /\ fn_out' = IsLeaderStock(price_data, rs_score)
    /\ fn_pc' = "is_leader_stock"
    /\ UNCHANGED <<prices, cacheVars, runVars, rankVars>>

\* check_rs_line_52w_high(stock_price_data, market_price_data)
HighCall ==
    /\ fn_pc = "in"
    /\ \E stock_price_data \in StockFrames, market_price_data \in MarketFrames :
         /\ fn_in' = [f |-> "check_rs_line_52w_high", stock |-> stock_price_data,
                      market |-> market_price_data]
         /\ fn_out' = CheckRsLine52wHigh(stock_price_data, market_price_data)
    /\ fn_pc' = "check_rs_line_52w_high"
    /\ UNCHANGED <<prices, cacheVars, runVars, rankVars>>

\* calculate_rs_trend(stock_price_data, market_price_data)
TrendCall ==
    /\ fn_pc = "in"
    /\ \E stock_price_data \in TrendStockFrames, market_price_data \in TrendMarketFrames :
         /\ fn_in' = [f |-> "calculate_rs_trend", stock |-> stock_price_data,
                      market |-> market_price_data]
         /\ fn_out' = CalculateRsTrend(stock_price_data, market_price_data, TREND_DAYS)
    /\ fn_pc' = "calculate_rs_trend"
    /\ UNCHANGED <<prices, cacheVars, runVars, rankVars>>

\* DataFetcher().fetch_single_ticker(ticker)
FetchCall ==
    /\ fn_pc = "in"
    /\ \E attempts \in Attempts :
         /\ fn_in' = [f |-> "fetch_single_ticker", attempts |-> attempts]
         /\ fn_out' = FetchSingleTicker(attempts)
    /\ fn_pc' = "fetch_single_ticker"
    /\ UNCHANGED <<prices, cacheVars, runVars, rankVars>>

\* run_rs_ranking(tickers, save_csv, print_report=True)
RunRankingCall ==
    /\ fn_pc = "in"
    /\ \E provided \in [Tickers -> Provided], benchmark_ok \in BOOLEAN,
          save_csv \in BOOLEAN, dirs \in DirStates :
         /\ fn_in' = [f |-> "run_rs_ranking", provided |-> provided,
                      benchmark_ok |-> benchmark_ok, save_csv |-> save_csv, dirs |-> dirs]
         /\ fn_out' \in RunRsRanking(Tickers, save_csv, provided, benchmark_ok, dirs)
    /\ fn_pc' = "run_rs_ranking"
    /\ UNCHANGED <<prices, cacheVars, runVars, rankVars>>

\* calculate_rs_1w_ago on n rows of price data and m dates shared with the
\* benchmark, a being what calculate_rs_raw meets
LaggedScoreCall ==
    /\ fn_pc = "in"
    /\ \E n \in PriceLens, a \in Answers, D \in GivenDists :
       \E m \in {LOOKBACK - 1, n - DAYS_BACK} :
         /\ fn_in' = [f |-> "calculate_rs_1w_ago", n |-> n, m |-> m, a |-> a, dist |-> D]
         /\ fn_out' = [score |-> CalculateRs1wAgo(n, m, a, D),
                       dist |-> DistributionAfter(D, a.rs)]
    /\ fn_pc' = "lagged score"
    /\ UNCHANGED <<prices, cacheVars, runVars, rankVars>>

\* RSCalculator().calculate_multi_period_rs(stock, market, periods), beside
\* the same call without periods
MultiPeriodCall ==
    /\ fn_pc = "in"
    /\ \E stock \in MultiSeries(Num(3)), market \in MultiSeries(Num(2)) \cup MultiSeries(Num(1)),
          periods \in PeriodMaps :
         /\ fn_in' = [f |-> "calculate_multi_period_rs", stock |-> stock,
                      market |-> market, periods |-> periods]
         /\ fn_out' = [rs |-> CalculateMultiPeriodRs(stock, market, periods),
                       default |-> CalculateMultiPeriodRs(stock, market, NoPeriods)]
    /\ fn_pc' = "calculate_multi_period_rs"
    /\ UNCHANGED <<prices, cacheVars, runVars, rankVars>>

\* app.py from the ranked table to the display
IndicatorStepCall ==
    /\ fn_pc = "in"
    /\ \E rankings_df \in RankedTables, benchmark \in Benchmarks :
         /\ fn_in' = [f |-> "indicator step", rankings_df |-> rankings_df,
                      market_benchmark |-> benchmark]
         /\ fn_out' = IndicatorStep(rankings_df, benchmark)
    /\ fn_pc' = "indicator step"
    /\ UNCHANGED <<prices, cacheVars, runVars, rankVars>>

NextCalc ==
    \/ IndicatorStepCall
    \/ MultiPeriodCall
    \/ LaggedScoreCall
    \/ RunRankingCall
    \/ FetchCall
    \/ TrendCall
    \/ HighCall
    \/ LaggedSeriesCall
    \/ LeaderCall
    \/ RsRawCall
    \/ PeriodReturnCall
    \/ WeightedRsCall

SpecCalc == InitCalc /\ [][NextCalc]_vars

(***************************************************************************)
(*                               the claims                                *)
(***************************************************************************)
Collected == {i \in DOMAIN futures : futures[i].st = "collected"}
Succeeding(S) == {i \in S : prices[futures[i].ticker].ok}
AfterBatch == pc \in {"save_data", "save_meta", "check", "user", "done"} /\ dispatched > 0

\* C1: in the market batch every submitted ticker yields exactly one
\* outcome, a failing unit (no data, short history, no RS, an exception)
\* never aborts the batch, the distribution holds a ticker iff its unit
\* succeeded, and success_count + fail_count is the number of tickers
\* submitted.
C1_BatchOutcomes ==
    /\ pc # "raised"
    /\ pc = "market" =>
         /\ Len(futures) = Len(market_tickers)
         /\ \A i \in DOMAIN futures : futures[i].ticker = market_tickers[i]
         /\ success_count = Cardinality(Succeeding(Collected))
         /\ fail_count = Cardinality(Collected \ Succeeding(Collected))
         /\ DOMAIN market_rs_scores = {futures[i].ticker : i \in Succeeding(Collected)}
    /\ AfterBatch =>
         /\ success_count + fail_count = Len(market_tickers)
         /\ DOMAIN market_rs_scores = {t \in Range(market_tickers) : prices[t].ok}
         /\ \A t \in DOMAIN market_rs_scores : market_rs_scores[t] = prices[t].rs

C1_Witness ==
    /\ pc = "check" /\ dispatched = 2
    /\ success_count = 1 /\ fail_count = 1
    /\ Cardinality(DOMAIN market_rs_scores) = 1

Finished == pc = "done"
EmptyResult == table = <<>>
NoTargetComputable == \A t \in Range(user_tickers) : ~prices[t].ok

\* C2 as stated: an empty result only when every market unit failed or
\* every target unit failed; a table is never built from a partial
\* distribution.
C2_Original ==
    Finished =>
        /\ EmptyResult =>
             \/ dispatched > 0 /\ fail_count = dispatched
             \/ DOMAIN market_rs_scores # {} /\ DOMAIN user_rs_data = {}
        /\ ~EmptyResult => DOMAIN market_rs_scores = Range(market_tickers)

\* C2 amended: the result is empty exactly when the benchmark fetch failed,
\* or the distribution is empty (then every market unit was run and failed),
\* or no target ticker is computable; otherwise the table is not empty and
\* is built from a non-empty distribution, which lacks the tickers whose
\* units failed.
C2_EmptyExactlyWhen ==
    Finished =>
        /\ EmptyResult <=>
             \/ market_benchmark = "None"
             \/ DOMAIN market_rs_scores = {}
             \/ NoTargetComputable
        /\ (market_benchmark = "ok" /\ DOMAIN market_rs_scores = {}) =>
             ~cache_hit /\ dispatched = Len(market_tickers) /\ fail_count = dispatched
        /\ ~EmptyResult =>
             /\ DOMAIN market_rs_scores # {}
             /\ Len(market_rs_values) = Cardinality(DOMAIN market_rs_scores)
             /\ Range(market_rs_values) = {market_rs_scores[t] : t \in DOMAIN market_rs_scores}
             /\ {table[i].ticker : i \in DOMAIN table}
                    = {t \in Range(user_tickers) : prices[t].ok}

C2_Witness ==
    /\ Finished /\ EmptyResult
    /\ market_benchmark = "None" /\ dispatched = 0

C2_WitnessPartial ==
    /\ Finished /\ ~EmptyResult /\ fail_count = 1 /\ success_count = 1

\* the state of the cache files is the one the run's load saw
AsLoaded == pc = "market" \/ (cache_hit /\ pc # "idle")
SameTickerSet(l1, l2) == Range(l1) = Range(l2)
Readable == cache_file.st = "ok" /\ cache_meta.st = "ok"

\* C3 as stated: the snapshot is reused iff the ticker sets are equal and
\* its age is strictly less than 24 hours; otherwise the distribution is
\* recomputed and the snapshot overwritten with the new result.
C3_Original ==
    /\ AsLoaded =>
         (cache_hit <=> /\ use_cache /\ Readable
                        /\ SameTickerSet(cache_meta.tickers, market_tickers)
                        /\ cache_meta.age < CACHE_TTL_HOURS)
    /\ (pc \in {"check", "user", "done"} /\ market_benchmark = "ok" /\ use_cache
        /\ ~cache_hit /\ (saves = 0 \/ save_ok)) =>
         cache_file = DataFile(market_rs_scores) /\ cache_meta = MetaFile(market_tickers)

\* C3 amended: the snapshot is reused iff it is readable, the ticker sets
\* are equal and its age is at most 24 hours; otherwise every market unit is
\* dispatched, and the snapshot is overwritten with the new result when that
\* result is not empty and the two writes succeed.
C3_ReuseIffFresh ==
    /\ AsLoaded =>
         (cache_hit <=> /\ use_cache /\ Readable
                        /\ SameTickerSet(cache_meta.tickers, market_tickers)
                        /\ cache_meta.age <= CACHE_TTL_HOURS)
    /\ (pc \in {"market", "save_data", "save_meta", "check", "user", "done"}
        /\ market_benchmark = "ok" /\ ~cache_hit) => dispatched = Len(market_tickers)
    /\ (pc \in {"save_data", "save_meta", "check", "user", "done"}
        /\ market_benchmark = "ok" /\ use_cache /\ ~cache_hit) =>
         /\ saves = IF DOMAIN market_rs_scores # {} THEN 1 ELSE 0
         /\ save_ok =>
              cache_file = DataFile(market_rs_scores) /\ cache_meta = MetaFile(market_tickers)

C3_Witness ==
    /\ pc = "check" /\ cache_hit
    /\ cache_meta.age = CACHE_TTL_HOURS
    /\ cache_meta.tickers # market_tickers

C3_WitnessOverwrite ==
    /\ pc = "check" /\ ~cache_hit /\ save_ok /\ reads = 1

SecondRun ==
    /\ pc \in {"market", "save_data"} \/ (cache_hit /\ pc # "idle")
    /\ use_cache
    /\ prev_run.valid
    /\ SameTickerSet(prev_run.tickers, market_tickers)

C5_Original ==
    /\ reads <= 1 /\ saves <= 1
    /\ (reads = 1 /\ pc = "load") => futures = <<>>
    /\ pc \in {"save_data", "save_meta"} => AllCollected /\ Len(futures) = Len(market_tickers)
    /\ cache_hit => ~torn

RowOf(t) == CHOOSE i \in DOMAIN table : table[i].ticker = t
Ranked(t) == \E i \in DOMAIN table : table[i].ticker = t

\* C11 as stated: a target ticker that is a key of the market distribution
\* gets the weighted_rs stored in the distribution as its rs_raw, and is
\* neither fetched nor computed again.
C11_Original ==
    Finished =>
        /\ \A t \in DOMAIN market_rs_scores :
             Ranked(t) => table[RowOf(t)].rs_raw = market_rs_scores[t]
        /\ refetched \cap DOMAIN market_rs_scores = {}

Computable == {t \in Range(user_tickers) : prices[t].ok}
TableTickers == {table[i].ticker : i \in DOMAIN table}

\* C12 as stated: with a non-empty distribution the table has exactly one
\* row per distinct computable target ticker and no other row, every target
\* ticker that is not computable is dropped with a warning, and the result
\* is empty only if no target ticker succeeds.
C12_Original ==
    (Finished /\ DOMAIN market_rs_scores # {}) =>
        /\ TableTickers = Computable
        /\ Len(table) = Cardinality(Computable)
        /\ \A t \in Range(user_tickers) \ Computable : t \in warned
        /\ EmptyResult => Computable = {}

LaggedCall == fn_pc = "calculate_rs_1w_ago"
SharedDates == Range(fn_in.stock) = Range(fn_in.market)

\* C13 as stated: when the ticker and the benchmark share all dates, the
\* two series handed to calculate_rs_raw are the original series without
\* exactly their last 5 observations.
C13_Original ==
    (LaggedCall /\ SharedDates /\ fn_out.ok) =>
        /\ fn_out.stock = DropLast(fn_in.stock, 5)
        /\ fn_out.market = DropLast(fn_in.market, 5)

InFanOut == pc \in {"market", "user"}
Results == <<market_rs_scores, success_count, fail_count,
             user_rs_data, user_success_count, user_fail_count>>
Outcomes == success_count + fail_count + user_success_count + user_fail_count
\* a step of the collecting loop: one completed unit is taken and counted
CollectsOne ==
    /\ \E i \in DOMAIN futures :
         /\ futures[i].st = "done"
         /\ futures' = [futures EXCEPT ![i].st = "collected"]
    /\ Outcomes' = Outcomes + 1

WeightedCall == fn_pc = "calculate_weighted_rs"
\* the configured periods for which both returns are present
Contributing ==
    {p \in Range(Periods) : p \in DOMAIN fn_in.stock_returns
                            /\ p \in DOMAIN fn_in.market_returns}
\* the contribution of a period as the claim gives it, for a market return
\* other than -100%
StatedContribution(s, m) ==
    IF RatLess(RatAbs(m), Rat(1, 10)) THEN RatSub(s, m)
    ELSE RatMul(RatSub(RatDiv(RatAdd(Num(1), RatDiv(s, Num(100))),
                              RatAdd(Num(1), RatDiv(m, Num(100)))), Num(1)), Num(100))

\* C15 as stated: the contribution of a period is stock_return -
\* market_return when the market return's magnitude is below 0.1, and
\* ((1 + s/100) / (1 + m/100) - 1) * 100 otherwise; seen on the calls with a
\* single contributing period, whose result is that contribution.
C15_Original ==
    (WeightedCall /\ Cardinality(Contributing) = 1) =>
        \A p \in Contributing :
            fn_in.market_returns[p] # Num(0 - 100) =>
                /\ fn_out.ok
                /\ fn_out.v = StatedContribution(fn_in.stock_returns[p],
                                                 fn_in.market_returns[p])

\* the sum of f over the set S
RECURSIVE RatSumOver(_, _)
RatSumOver(S, f) ==
    IF S = {} THEN Num(0)
    ELSE LET p == CHOOSE q \in S : TRUE
         IN RatAdd(f[p], RatSumOver(S \ {p}, f))

\* C16: calculate_weighted_rs returns sum(contribution_i * weight_i) /
\* sum(weight_i) over exactly the configured periods with both returns
\* present; a period with a missing return is in neither sum; the result is
\* None iff no configured period contributes.
C16_WeightedAverageOfContributing ==
    WeightedCall =>
        /\ fn_out.ok <=> Contributing # {}
        /\ fn_out.ok =>
             LET contribution == [p \in Contributing |->
                     RelativeStrength(fn_in.stock_returns[p], fn_in.market_returns[p])]
                 weighted == [p \in Contributing |->
                     RatMul(contribution[p], RS_WEIGHTS[p])]
                 weight == [p \in Contributing |-> RS_WEIGHTS[p]]
             IN fn_out.v = RatDiv(RatSumOver(Contributing, weighted),
                                  RatSumOver(Contributing, weight))

C16_Witness ==
    /\ WeightedCall /\ fn_out.ok
    /\ Cardinality(Contributing) = 2
    /\ \E p \in Range(Periods) :
         p \in DOMAIN fn_in.stock_returns /\ p \notin DOMAIN fn_in.market_returns
    /\ fn_out.v # Num(0)

C16_WitnessNone ==
    /\ WeightedCall /\ ~fn_out.ok
    /\ DOMAIN fn_in.stock_returns # {} /\ DOMAIN fn_in.market_returns # {}

PeriodCall == fn_pc = "calculate_period_return"
Latest == fn_in.price_series[Len(fn_in.price_series)]
Anchor == fn_in.price_series[Len(fn_in.price_series) - fn_in.period_days]

\* C17: calculate_period_return(series, p) is None whenever len(series) <
\* p + 1, or the latest price or the anchor price series[-(p+1)] is null, or
\* the anchor price is <= 0; in every other case it returns
\* (series[-1] / series[-(p+1)] - 1) * 100, evaluated in floating point.
C17_PeriodReturnDefined ==
    PeriodCall =>
        IF Len(fn_in.price_series) < fn_in.period_days + 1 THEN ~fn_out.ok
        ELSE IF Latest = NaN \/ Anchor = NaN THEN ~fn_out.ok
        ELSE IF Anchor.num <= 0 THEN ~fn_out.ok
        ELSE /\ fn_out.ok
             /\ fn_out.v = Fl(RatMul(Fl(RatSub(Fl(RatDiv(Latest, Anchor)), Num(1))),
                                     Num(100)))

C17_Witness ==
    /\ PeriodCall
    /\ Len(fn_in.price_series) = 3 /\ fn_in.period_days = 1
    /\ fn_in.price_series[1] = Num(0)
    /\ Anchor = Num(1) /\ Latest = Num(3)
    /\ fn_out.ok /\ fn_out.v = Num(200)

C17_WitnessUndefined ==
    /\ PeriodCall /\ ~fn_out.ok
    /\ Len(fn_in.price_series) = 3 /\ fn_in.period_days = 2
    /\ Anchor = Num(0) /\ Latest = Num(7)

PowersOfTwo == {Rat(1, 2), Num(2), Num(4)}

\* C18 as stated: the result on k * S equals the result on S for every
\* positive k, and is undefined on k * S exactly when it is undefined on S.
C18_Original ==
    PeriodCall =>
        /\ fn_out.scaled.ok <=> fn_out.ok
        /\ fn_out.ok => fn_out.scaled.v = fn_out.v

\* C18 amended: the result on k * S is undefined exactly when it is
\* undefined on S; it equals the result on S when k is a power of two (the
\* scaling is then exact in floating point); for any other k the two
\* results agree up to the rounding of the products k * price and of the
\* quotient, here within 100 * (q + 1) * 2^(3 - MantBits) of each other, q
\* being the exact price ratio.
C18_ScaleInvariantUpToRounding ==
    PeriodCall =>
        /\ fn_out.scaled.ok <=> fn_out.ok
        /\ (fn_out.ok /\ fn_in.k \in PowersOfTwo) => fn_out.scaled.v = fn_out.v
        /\ fn_out.ok =>
             LET diff == RatAbs(RatSub(fn_out.scaled.v, fn_out.v))
                 q == RatAbs(RatDiv(Latest, Anchor))
             IN ~RatLess(RatMul(RatAdd(q, Num(1)), Rat(800, Pow2(MantBits))), diff)

C18_Witness ==
    /\ PeriodCall /\ fn_out.ok
    /\ fn_in.k = Num(5)
    /\ Anchor = Num(5) /\ Latest = Num(7)
    /\ fn_out.scaled.v # fn_out.v

C18_WitnessExact ==
    /\ PeriodCall /\ fn_out.ok
    /\ fn_in.k = Num(4)
    /\ Anchor = Num(5) /\ Latest = Num(7)
    /\ fn_out.scaled.v = fn_out.v

RECURSIVE SetSum(_)
SetSum(S) == IF S = {} THEN 0 ELSE LET x == CHOOSE y \in S : TRUE IN x + SetSum(S \ {x})
Clamp(v, lo, hi) == IF v < lo THEN lo ELSE IF v > hi THEN hi ELSE v

\* floor of the percentile-of-score of x in D with ties at their average
\* rank: the c entries equal to x hold the rank positions below+1..below+c,
\* the percentile is 100 * (their average) / n; a value not in D has the
\* percentage of entries below it.
FloorRankPercentile(D, x) ==
    LET n == Len(D)
        below == Cardinality({i \in DOMAIN D : D[i] < x})
        c == Cardinality({i \in DOMAIN D : D[i] = x})
    IN IF c = 0 THEN (100 * below) \div n
       ELSE (100 * SetSum((below + 1)..(below + c))) \div (c * n)

\* 99 identical values and one outlier far above them
OutlierDist(base, outlier) == [i \in 1..100 |-> IF i = 100 THEN outlier ELSE base]

MarketTable == rk_pc = "market"
RankerTable == rk_pc = "ranker"
TableScores == {rk_table[i].rs_score : i \in DOMAIN rk_table}
TableRanks == {rk_table[i].rank : i \in DOMAIN rk_table}

C7_ScoresWithinRange ==
    /\ (MarketTable \/ RankerTable) =>
         \A i \in DOMAIN rk_table : rk_table[i].rs_score \in 1..99
    /\ (rk_pc = "lagged" /\ rk_score.ok) => rk_score.score \in 1..99

C7_Witness ==
    /\ MarketTable
    /\ \E i, j \in DOMAIN rk_table :
         /\ \A k \in DOMAIN dist_in : rk_table[i].rs_raw < dist_in[k]
         /\ \A k \in DOMAIN dist_in : rk_table[j].rs_raw > dist_in[k]
         /\ rk_table[i].rs_score = 1 /\ rk_table[j].rs_score = 99

\* C8: for a fixed distribution the score is monotonic in the raw value:
\* a > b implies score(a) >= score(b), for the rows of a table and for any
\* two raw values.
C8_ScoreMonotonic ==
    /\ MarketTable =>
         \A i, j \in DOMAIN rk_table :
            rk_table[i].rs_raw > rk_table[j].rs_raw
                => rk_table[i].rs_score >= rk_table[j].rs_score
    /\ dist_in # <<>> =>
         \A a, b \in (0 - 1)..(MaxRS + 1) :
            a > b => RsScore(dist_in, a) >= RsScore(dist_in, b)

C8_Witness ==
    /\ MarketTable
    /\ \E i, j \in DOMAIN rk_table :
         /\ rk_table[i].rs_raw > rk_table[j].rs_raw
         /\ rk_table[i].rs_score > rk_table[j].rs_score
    /\ \E i, j \in DOMAIN rk_table :
         /\ rk_table[i].rs_raw > rk_table[j].rs_raw
         /\ rk_table[i].rs_score = rk_table[j].rs_score

\* C9: the ranked table (market-wide, and Ranker's) has its rows in
\* non-increasing rs_score order; rows of equal score carry the same rank,
\* the position of the first row of their tie group; a strictly higher score
\* carries a strictly smaller rank.
C9_SortedWithMinRank ==
    (MarketTable \/ RankerTable) =>
        /\ \A i, j \in DOMAIN rk_table :
             i < j => rk_table[i].rs_score >= rk_table[j].rs_score
        /\ \A i \in DOMAIN rk_table :
             \E f \in DOMAIN rk_table :
                /\ rk_table[f].rs_score = rk_table[i].rs_score
                /\ \A k \in DOMAIN rk_table :
                     rk_table[k].rs_score = rk_table[i].rs_score => f <= k
                /\ rk_table[i].rank = f
        /\ \A i, j \in DOMAIN rk_table :
             rk_table[i].rs_score > rk_table[j].rs_score
                => rk_table[i].rank < rk_table[j].rank

C9_Witness ==
    /\ MarketTable
    /\ Len(rk_table) = 3
    /\ rk_table[1].rs_score > rk_table[2].rs_score
    /\ rk_table[2].rs_score = rk_table[3].rs_score
    /\ rk_table[2].rank = 2 /\ rk_table[3].rank = 2

\* C10 as stated: the rank column is dense, its values are exactly 1..k for
\* k distinct scores.
C10_Original ==
    (MarketTable \/ RankerTable) => TableRanks = 1..Cardinality(TableScores)

\* C10 amended: the rank is the competition ("min") rank: one more than the
\* number of rows with a strictly higher score, so the best rows have rank 1
\* and the rank after a tie group of g rows is the group's rank plus g.
C10_CompetitionRank ==
    (MarketTable \/ RankerTable) =>
        /\ \A i \in DOMAIN rk_table :
             rk_table[i].rank =
                1 + Cardinality({j \in DOMAIN rk_table :
                                    rk_table[j].rs_score > rk_table[i].rs_score})
        /\ rk_table # <<>> => 1 \in TableRanks
        /\ \A i \in DOMAIN rk_table :
             LET g == Cardinality({j \in DOMAIN rk_table :
                                      rk_table[j].rank = rk_table[i].rank})
             IN \A r \in TableRanks :
                  r > rk_table[i].rank => r >= rk_table[i].rank + g

C10_Witness ==
    /\ MarketTable
    /\ Len(rk_table) = 3
    /\ rk_table[1].rs_score = rk_table[2].rs_score
    /\ rk_table[2].rs_score > rk_table[3].rs_score
    /\ TableRanks = {1, 3}

\* C19: calculate_rs_raw gives nothing when the two series share fewer than
\* 253 dates; when it succeeds it gives both the weighted RS, computed on the
\* shared dates, and a non-empty RS line holding exactly the shared dates
\* where both prices are non-null and strictly positive, each value being
\* stock / market; when it fails it gives neither.
RawCall == fn_pc = "calculate_rs_raw"
CommonDates == DOMAIN fn_in.stock \cap DOMAIN fn_in.market
BothPositive ==
    {d \in CommonDates : /\ fn_in.stock[d] # NaN /\ fn_in.market[d] # NaN
                         /\ RatLess(Num(0), fn_in.stock[d])
                         /\ RatLess(Num(0), fn_in.market[d])}
C19_BothOrNothing ==
    RawCall =>
        /\ Cardinality(CommonDates) < RS_PERIOD_12M + 1 => ~fn_out.ok
        /\ fn_out.ok =>
             /\ fn_out.weighted_rs.ok
             /\ fn_out.weighted_rs =
                  CalculateWeightedRs(PeriodReturns(Aligned(fn_in.stock, CommonDates)),
                                      PeriodReturns(Aligned(fn_in.market, CommonDates)))
             /\ DOMAIN fn_out.rs_line = BothPositive
             /\ BothPositive # {}
             /\ \A d \in BothPositive :
                  fn_out.rs_line[d] = Fl(RatDiv(fn_in.stock[d], fn_in.market[d]))
        /\ ~fn_out.ok => ~fn_out.weighted_rs.ok /\ DOMAIN fn_out.rs_line = {}
\* a success on series that differ in their dates and hold a bad price
C19_Witness ==
    /\ RawCall /\ fn_out.ok
    /\ DOMAIN fn_in.stock # DOMAIN fn_in.market
    /\ BothPositive # CommonDates
\* 252 shared dates: nothing
C19_WitnessShort ==
    /\ RawCall /\ ~fn_out.ok
    /\ Cardinality(CommonDates) = RS_PERIOD_12M
    /\ BothPositive = CommonDates
\* enough shared dates and positive prices on some, yet no weighted RS
C19_WitnessNoWeighted ==
    /\ RawCall /\ ~fn_out.ok
    /\ Cardinality(CommonDates) > RS_PERIOD_12M
    /\ BothPositive # {}
\* C20 as stated: is_leader_stock is true exactly when rs_score > 80, the
\* latest valid close is above SMA_50 and SMA_50 is above SMA_200, the
\* averages being those of the valid closes, of which there are at least 200.
LeaderCalled == fn_pc = "is_leader_stock"
ValidOf(col) ==
    IF col \in DOMAIN fn_in.price_data THEN DropNa(fn_in.price_data[col]) ELSE <<>>
TrendAligned(valid) ==
    /\ Len(valid) >= SMA_LONG
    /\ RatLess(RollingMeanLast(valid, SMA_SHORT), valid[Len(valid)])
    /\ RatLess(RollingMeanLast(valid, SMA_LONG), RollingMeanLast(valid, SMA_SHORT))
LeaderRule(valid) ==
    /\ fn_out = TRUE <=> (fn_in.rs_score > LEADER_RS /\ TrendAligned(valid))
    /\ Len(valid) < SMA_LONG => fn_out = FALSE
    /\ fn_in.rs_score <= LEADER_RS => fn_out = FALSE
C20_Original == LeaderCalled => LeaderRule(ValidOf("Close"))
\* C20, amended: the rule holds of the adjusted closes when the frame has an
\* "Adj Close" column, and of the closes only when it has none.
C20_LeaderOnPriceColumn ==
    LeaderCalled =>
        LeaderRule(IF "Adj Close" \in DOMAIN fn_in.price_data
                   THEN ValidOf("Adj Close") ELSE ValidOf("Close"))
\* a leader by its adjusted closes whose closes are not trend-aligned
C20_Witness ==
    /\ LeaderCalled /\ fn_out = TRUE
    /\ DOMAIN fn_in.price_data = {"Close", "Adj Close"}
    /\ ~TrendAligned(ValidOf("Close"))
\* 200 valid closes trend-aligned, the rating exactly 80: no leader
C20_WitnessRating ==
    /\ LeaderCalled /\ fn_out = FALSE
    /\ fn_in.rs_score = LEADER_RS
    /\ DOMAIN fn_in.price_data = {"Close"}
    /\ Len(ValidOf("Close")) = SMA_LONG /\ TrendAligned(ValidOf("Close"))
\* 199 valid closes of 201 rows and a rating above 80: no leader
C20_WitnessFewCloses ==
    /\ LeaderCalled /\ fn_out = FALSE
    /\ fn_in.rs_score > LEADER_RS
    /\ DOMAIN fn_in.price_data = {"Close"}
    /\ Len(fn_in.price_data["Close"]) > SMA_LONG
    /\ Len(ValidOf("Close")) = SMA_LONG - 1

\* C21: check_rs_line_52w_high is false with fewer than 252 aligned price
\* points; with at least 252 it is true exactly when the latest RS-line value
\* is at least the maximum of the 251 values before it in the trailing
\* 252-point window.
HighCalled == fn_pc = "check_rs_line_52w_high"
PricesOf(frame) ==
    IF "Adj Close" \in DOMAIN frame THEN frame["Adj Close"]
    ELSE IF "Close" \in DOMAIN frame THEN frame["Close"]
    ELSE <<>>
AlignedDates == ValidDates(PricesOf(fn_in.stock)) \cap ValidDates(PricesOf(fn_in.market))
\* the RS line over the aligned dates, in date order
AlignedRsLine ==
    LET stock == PricesOf(fn_in.stock)
        market == PricesOf(fn_in.market)
        ds == SortedDates(ValidDates(stock) \cap ValidDates(market))
    IN [i \in DOMAIN ds |-> Fl(RatDiv(stock[ds[i]], market[ds[i]]))]
\* the positions before the latest inside the trailing 252-point window
PriorOf(line) == Max2(1, Len(line) - WEEKS_52 + 1)..(Len(line) - 1)
C21_HighOfWindow ==
    HighCalled =>
        LET line == AlignedRsLine
        IN /\ Len(line) < WEEKS_52 => fn_out = FALSE
           /\ Len(line) >= WEEKS_52 =>
                /\ Cardinality(PriorOf(line)) = WEEKS_52 - 1
                /\ fn_out = TRUE <=>
                     \A i \in PriorOf(line) : ~RatLess(line[Len(line)], line[i])
\* a high that only equals the prior maximum, a higher value lying just
\* outside the window
C21_Witness ==
    /\ HighCalled /\ fn_out = TRUE
    /\ LET line == AlignedRsLine
       IN /\ Len(line) > WEEKS_52
          /\ \E i \in PriorOf(line) : line[i] = line[Len(line)]
          /\ \E i \in DOMAIN line \ PriorOf(line) : RatLess(line[Len(line)], line[i])
\* 251 aligned points of frames with 252 rows each, the last one the highest
C21_WitnessShort ==
    /\ HighCalled /\ fn_out = FALSE
    /\ Cardinality(DOMAIN PricesOf(fn_in.stock)) >= WEEKS_52
    /\ LET line == AlignedRsLine
       IN /\ Len(line) = WEEKS_52 - 1
          /\ \A i \in 1..(Len(line) - 1) : RatLess(line[i], line[Len(line)])
\* a strict new high
C21_WitnessStrict ==
    /\ HighCalled /\ fn_out = TRUE
    /\ LET line == AlignedRsLine
       IN \A i \in PriorOf(line) : RatLess(line[i], line[Len(line)])

\* C22: calculate_rs_trend gives no slope and the flat arrow with fewer than
\* 20 aligned points; otherwise the slope is defined and the arrow is rising
\* exactly when the slope percentage is above 0.5, falling exactly when it is
\* below -0.5 and flat for every value in between, the ends included.
TrendCalled == fn_pc = "calculate_rs_trend"
C22_ArrowBySlope ==
    TrendCalled =>
        /\ Cardinality(AlignedDates) < TREND_DAYS => fn_out = NoTrend
        /\ Cardinality(AlignedDates) >= TREND_DAYS =>
             /\ fn_out.slope.ok
             /\ fn_out.arrow = "rising" <=> RatLess(Rat(1, 2), fn_out.slope.v)
             /\ fn_out.arrow = "falling" <=> RatLess(fn_out.slope.v, Rat(0 - 1, 2))
             /\ fn_out.arrow = "flat" <=>
                  (~RatLess(fn_out.slope.v, Rat(0 - 1, 2)) /\ ~RatLess(Rat(1, 2), fn_out.slope.v))
\* a rising arrow from the adjusted closes of a frame whose closes are level
C22_Witness ==
    /\ TrendCalled /\ fn_out.arrow = "rising"
    /\ DOMAIN fn_in.stock = {"Close", "Adj Close"}
\* the slope percentage exactly 0.5: flat
C22_WitnessEdge ==
    /\ TrendCalled /\ fn_out.slope.ok /\ fn_out.slope.v = Rat(1, 2)
    /\ fn_out.arrow = "flat"
C22_WitnessFalling == TrendCalled /\ fn_out.arrow = "falling"
\* 19 aligned points of a rising line with 20 rows
C22_WitnessShort ==
    /\ TrendCalled /\ fn_out = NoTrend
    /\ Cardinality(AlignedDates) = TREND_DAYS - 1
    /\ "Close" \in DOMAIN fn_in.stock
    /\ Cardinality(DOMAIN fn_in.stock["Close"]) >= TREND_DAYS
    /\ \E d \in AlignedDates : PricesOf(fn_in.stock)[d] = Num(28)

\* C23 as stated: fetch_single_ticker gives nothing when every attempt fails,
\* when the series has fewer than 262 bars or when more than a tenth of its
\* closes are missing; a series it gives has at least 262 bars and no missing
\* value in the price column the RS pipeline reads (Adj Close when present,
\* otherwise Close).
FetchCalled == fn_pc = "fetch_single_ticker"
\* the frame the retry loop ends with, if any
Downloaded ==
    IF fn_in.attempts[1].got = "frame" THEN fn_in.attempts[1]
    ELSE IF fn_in.attempts[1].got = "raises" /\ fn_in.attempts[2].got = "raises" THEN Raises
    ELSE fn_in.attempts[2]
MissingIn(column) == Cardinality({i \in DOMAIN column : column[i] = NaN})
C23_RefusalRules ==
    FetchCalled =>
        /\ Downloaded.got # "frame" => ~fn_out.ok
        /\ (Downloaded.got = "frame" /\ "Close" \in DOMAIN Downloaded.df) =>
             /\ Len(Downloaded.df["Close"]) < MIN_DATA_POINTS => ~fn_out.ok
             /\ 10 * MissingIn(Downloaded.df["Close"]) > Len(Downloaded.df["Close"])
                  => ~fn_out.ok
C23_Original ==
    /\ C23_RefusalRules
    /\ (FetchCalled /\ fn_out.ok) =>
         /\ Len(fn_out.df[PriceCol(fn_out.df)]) >= MIN_DATA_POINTS
         /\ MissingIn(fn_out.df[PriceCol(fn_out.df)]) = 0

\* C24 as stated: with save_csv, when the benchmark and some ticker are
\* fetched and some ticker's RS is computable, run_rs_ranking does not raise,
\* returns a non-empty table and has saved that table to
\* output/rs_rankings.csv.
RankingRun == fn_pc = "run_rs_ranking"
RunCanRank ==
    /\ fn_in.benchmark_ok
    /\ \E t \in Tickers : fn_in.provided[t].fetched /\ fn_in.provided[t].computable
C24_Original ==
    (RankingRun /\ fn_in.save_csv /\ RunCanRank) =>
        /\ ~fn_out.raised
        /\ fn_out.returned = "table" /\ fn_out.rows # <<>>
        /\ RANKINGS_CSV \in DOMAIN fn_out.files
        /\ fn_out.files[RANKINGS_CSV] = fn_out.rows

\* C25: while the market batch is collected, the distribution mapping and the
\* two counts are determined by the set of units collected so far and the
\* outcome of each, whatever the order in which the units completed; so the
\* finished batch gives the same mapping and counts for every order.
CollectedOk == {i \in Collected : prices[market_tickers[i]].ok}
C25_OrderIndependent ==
    pc = "market" =>
        /\ market_rs_scores =
             [t \in {market_tickers[i] : i \in CollectedOk} |-> prices[t].rs]
        /\ success_count = Cardinality(CollectedOk)
        /\ fail_count = Cardinality(Collected \ CollectedOk)
\* the unit submitted second is collected before the unit submitted first
C25_Witness ==
    /\ pc = "market" /\ Len(market_tickers) = 2
    /\ futures[1].st = "done" /\ futures[2].st = "collected"
    /\ futures[1].res.ok /\ futures[2].res.ok
    /\ prices[market_tickers[1]].rs # prices[market_tickers[2]].rs
\* the batch is finished, one unit having succeeded and one failed
C25_WitnessFinished ==
    /\ pc = "market" /\ AllCollected
    /\ success_count = 1 /\ fail_count = 1

\* C26: a call of calculate_rs_1w_ago leaves the distribution it is given as
\* it was, reads and writes no cache file and fetches nothing; a score it
\* returns is the rank of the lagged scalar in that distribution; it returns
\* None when the truncated series has fewer than 252 rows or shares fewer
\* than 252 dates with the benchmark.
LaggedScored == fn_pc = "lagged score"
C26_LaggedFrame ==
    [][fn_pc' = "lagged score" =>
         /\ fn_out'.dist = fn_in'.dist
         /\ UNCHANGED <<prices, cache_file, cache_meta, reads, saves, dispatched, refetched>>
         /\ fn_out'.score.ok =>
              /\ fn_in'.dist # <<>>
              /\ fn_out'.score.score = RsScore(fn_in'.dist, fn_in'.a.rs)
         /\ (fn_in'.n - DAYS_BACK < LOOKBACK \/ fn_in'.m < LOOKBACK) => ~fn_out'.score.ok]_vars
\* a score against an unsorted distribution of three
C26_Witness ==
    /\ LaggedScored /\ fn_out.score.ok
    /\ fn_in.dist = <<0, 2, 1>> /\ fn_out.dist = <<0, 2, 1>>
\* 251 shared dates: None
C26_WitnessShort ==
    /\ LaggedScored /\ ~fn_out.score.ok
    /\ fn_in.a.raw_ok /\ ~fn_in.a.raises
    /\ fn_in.n - DAYS_BACK >= LOOKBACK /\ fn_in.m = LOOKBACK - 1

\* C27: with fair workers and fetches that return, every call of
\* calculate_market_wide_rs_ranking returns; it leaves neither pool, computes
\* no score and does not return while a unit it submitted is still queued,
\* running or uncollected, and no step of the call withdraws a submitted unit.
Submitted == DOMAIN futures
Units == [i \in DOMAIN futures |-> futures[i].ticker]
C27_Returns == (pc = "bench") ~> (pc = "done")
C27_WaitsForUnits ==
    [][/\ (pc \notin {"idle", "bench", "load", "market", "user"}) => AllCollected
       /\ (table' # <<>> \/ pc' = "done") =>
            \A i \in DOMAIN futures' : futures'[i].st = "collected"
       /\ (InFanOut /\ pc' # pc) => AllCollected
       /\ (InFanOut /\ pc' = pc) => Units' = Units]_vars
C27_ReturnsAfterEveryUnit == C27_Returns /\ C27_WaitsForUnits
\* a run that went through both pools, two market units and one user unit
C27_Witness ==
    /\ pc = "done" /\ ret = "ranked"
    /\ dispatched = 2 /\ Len(futures) >= 1 /\ AllCollected
    /\ max_workers = 2
\* the market batch with a unit finished and another still running
C27_WitnessMidBatch ==
    /\ pc = "market"
    /\ \E i, j \in Submitted : futures[i].st = "done" /\ futures[j].st = "running"

\* C28: with one period p of weight 1.0 and a market return of magnitude
\* beyond epsilon, calculate_multi_period_rs returns the ratio form
\* ((1 + stock_return/100) / (1 + market_return/100) - 1) * 100, and with
\* the default weight map as periods it returns what it returns without
\* periods.
MultiPeriodCalled == fn_pc = "calculate_multi_period_rs"
SinglePeriod ==
    fn_in.periods.given /\ Len(fn_in.periods.items) = 1 /\ fn_in.periods.items[1][2] = Num(1)
ThePeriod == fn_in.periods.items[1][1]
StockReturnOf(p) == CalculatePeriodReturn(Aligned(fn_in.stock, DOMAIN fn_in.stock), p)
MarketReturnOf(p) == CalculatePeriodReturn(Aligned(fn_in.market, DOMAIN fn_in.market), p)
RatioForm(stock_return, market_return) ==
    RatMul(RatSub(RatDiv(RatAdd(Num(1), RatDiv(stock_return, Num(100))),
                         RatAdd(Num(1), RatDiv(market_return, Num(100)))), Num(1)),
           Num(100))
C28_Original ==
    MultiPeriodCalled =>
        /\ (/\ SinglePeriod
            /\ StockReturnOf(ThePeriod).ok
            /\ MarketReturnOf(ThePeriod).ok
            /\ ~RatLess(RatAbs(MarketReturnOf(ThePeriod).v), NearZero))
           => fn_out.rs = Value(RatioForm(StockReturnOf(ThePeriod).v,
                                          MarketReturnOf(ThePeriod).v))
        /\ fn_in.periods = DefaultPeriods => fn_out.rs = fn_out.default
\* what the code does with a dict of periods: the weighted mean of the
\* differences of the returns
C28_DifferencePolicy ==
    (MultiPeriodCalled /\ SinglePeriod
       /\ StockReturnOf(ThePeriod).ok /\ MarketReturnOf(ThePeriod).ok)
    => fn_out.rs = Value(RatSub(StockReturnOf(ThePeriod).v,
                                MarketReturnOf(ThePeriod).v))

\* C29: the cache files change only in the save that follows a rebuild of a
\* non-empty distribution with use_cache; a run without use_cache reads and
\* writes no cache file, a run with an empty distribution and a run that hit
\* the cache write nothing, and a read or write that fails is a miss or is
\* skipped: the run goes on and never raises.
CacheFiles == <<cache_file, cache_meta.st, cache_meta.tickers>>
Saving == pc \in {"save_data", "save_meta"}
C29_CacheFrame ==
    [][/\ CacheFiles' # CacheFiles =>
            /\ Saving /\ use_cache /\ ~cache_hit
            /\ dispatched > 0 /\ AllCollected /\ DOMAIN market_rs_scores # {}
       /\ (pc' # "idle" /\ ~use_cache') => (reads' = 0 /\ saves' = 0)
       /\ cache_hit' => saves' = 0
       /\ (pc' \in {"check", "user", "done"} /\ DOMAIN market_rs_scores' = {}) => saves' = 0
       /\ pc' # "raised"
       /\ pc = "load" => pc' \in {"check", "market", "idle"}
       /\ Saving => pc' \in {"save_meta", "check", "idle"}]_vars
\* a rebuild with use_cache that wrote both files and went on to rank
C29_Witness ==
    /\ pc = "done" /\ ret = "ranked"
    /\ use_cache /\ ~cache_hit /\ saves = 1 /\ save_ok
    /\ cache_file = DataFile(market_rs_scores)
\* a write failed, the run ranked all the same
C29_WitnessWriteFails ==
    /\ pc = "done" /\ ret = "ranked"
    /\ use_cache /\ saves = 1 /\ ~save_ok
\* an unreadable cache is a miss: the batch is dispatched
C29_WitnessReadFails ==
    /\ pc = "market" /\ use_cache /\ reads = 1 /\ ~cache_hit
    /\ cache_meta.st = "corrupt" /\ cache_file.st = "ok"
\* a fresh cache beside a run without use_cache, which ranked
C29_WitnessNoCache ==
    /\ pc = "done" /\ ret = "ranked" /\ ~use_cache
    /\ cache_file.st = "ok" /\ cache_meta.st = "ok" /\ reads = 0 /\ saves = 0
    /\ Range(cache_meta.tickers) = Range(market_tickers)
\* a cache hit
C29_WitnessHit ==
    /\ pc = "done" /\ cache_hit /\ saves = 0 /\ dispatched = 0

\* C30: in the dashboard, with a non-empty ranked table and the benchmark
\* available, every indicator call is accepted by its function, one record
\* is produced per row that has price data, and the run reaches the result
\* display, not the error handler.
IndicatorsRun == fn_pc = "indicator step"
RowsWithPrices ==
    SelectSeq(fn_in.rankings_df, LAMBDA row : row.price_data # "None")
C30_Original ==
    (IndicatorsRun /\ fn_in.rankings_df # <<>> /\ fn_in.market_benchmark = "frame") =>
        /\ fn_out.shown = "results"
        /\ fn_out.indicators_data = [i \in DOMAIN RowsWithPrices |-> RowsWithPrices[i].ticker]
\* what the code does: with the benchmark available the first row that has
\* price data ends the run in the error handler
C30_FirstPricedRowRaises ==
    (IndicatorsRun /\ fn_in.rankings_df # <<>>) =>
        /\ fn_out.shown = "error" <=>
             (fn_in.market_benchmark = "frame" /\ RowsWithPrices # <<>>)
        /\ fn_out.shown = "error" => fn_out.indicators_data = <<>>
        /\ fn_out.shown = "results" =>
             fn_out.indicators_data = [i \in DOMAIN RowsWithPrices |-> RowsWithPrices[i].ticker]
====
